---- MODULE Spec2Model ----
(***************************************************************************)
(* Model of the four-stage pipeline of aiops-incident-copilot:             *)
(*   normalize.py  -> features.py -> build_signals.py / detections.py      *)
(*   -> correlate.py                                                       *)
(* Each stage is modelled over the tables it reads and writes.  A stage    *)
(* has its own specification (SpecNorm, SpecFeat, SpecSig, SpecCorr) in    *)
(* which the tables of the other stages stay as they are.                  *)
(* Times are seconds since an arbitrary origin.                            *)
(***************************************************************************)
EXTENDS Integers, Sequences, FiniteSets, TLC

VARIABLES
    raw_events,         \* table raw_events: sequence of rows, id = position
    normalized_events,  \* table normalized_events: sequence of rows
    nrun,               \* per runner of normalize.py: position and fetched rows
    caught_up,          \* a main() ran to "caught up" and nothing was ingested since it fetched
    norm_hist,          \* history: a run was aborted; a whole run was made after "caught up"
    features,           \* table features_timeseries: set of rows
    entity_stats,       \* table entity_stats: set of rows
    now,                \* the wall clock, NOW()
    feat_fresh,         \* history: rollup_features committed at this clock, no event added since
    feat_runs,          \* number of committed rollup_features runs
    signal_events,      \* table signal_events: sequence of rows, id = position
    checkpoints,        \* table detection_checkpoints: job_name -> last_window_end (None: no row)
    det,                \* the run of detections.py: position, range, signals found
    incidents,          \* table incidents: sequence of rows, id = position
    incident_evidence,  \* table incident_evidence: set of (incident_id, signal_id) links
    corr,               \* the run of correlate.py: position, fetched signals, open transaction
    call,               \* a call of a function of normalize.py: its argument and what it returned
    sched,              \* the loop of run.py: next command, running process, exit codes
    conc,               \* two runs of correlate.py at once: positions, uncommitted writes
    last_op             \* name of the operation that made the last step

nvars == <<raw_events, normalized_events, nrun, caught_up, norm_hist>>

fvars == <<features, entity_stats, feat_fresh, feat_runs>>

vars == <<raw_events, normalized_events, nrun, caught_up, norm_hist,
          features, entity_stats, now, feat_fresh, feat_runs, signal_events,
          checkpoints, det, incidents, incident_evidence, corr, call, sched, conc,
          last_op>>

\* the variables of the Correlator
cvars == <<incidents, incident_evidence, corr>>

\* the variables of the Normalizer and of the Feature Aggregator that the
\* later stages do not write
upstream == <<raw_events, nrun, caught_up, norm_hist, entity_stats, feat_fresh, feat_runs, call, sched,
             conc>>

\* ------------------------------------------------------------------------
\* Generic helpers
\* ------------------------------------------------------------------------

Range(s) == {s[i] : i \in DOMAIN s}

Max2(a, b) == IF a >= b THEN a ELSE b

Min2(a, b) == IF a <= b THEN a ELSE b

\* Python None / SQL NULL for a time or a number
None == -1

\* ------------------------------------------------------------------------
\* Python strings: a str is the sequence of its characters
\* ------------------------------------------------------------------------

\* Python None where a str is expected
NoneS == <<"None">>

\* x or d
OrElse(x, d) == IF x = NoneS \/ x = <<>> THEN d ELSE x

UpperToLower ==
    ("A" :> "a") @@ ("B" :> "b") @@ ("C" :> "c") @@ ("D" :> "d") @@ ("E" :> "e") @@ ("F" :> "f") @@
    ("G" :> "g") @@ ("H" :> "h") @@ ("I" :> "i") @@ ("J" :> "j") @@ ("K" :> "k") @@ ("L" :> "l") @@
    ("M" :> "m") @@ ("N" :> "n") @@ ("O" :> "o") @@ ("P" :> "p") @@ ("Q" :> "q") @@ ("R" :> "r") @@
    ("S" :> "s") @@ ("T" :> "t") @@ ("U" :> "u") @@ ("V" :> "v") @@ ("W" :> "w") @@ ("X" :> "x") @@
    ("Y" :> "y") @@ ("Z" :> "z")

\* str.lower()
Lower(s) == [i \in DOMAIN s |-> IF s[i] \in DOMAIN UpperToLower THEN UpperToLower[s[i]] ELSE s[i]]

\* sub in s
Contains(sub, s) ==
    \E i \in 1..(Len(s) - Len(sub) + 1) : SubSeq(s, i, i + Len(sub) - 1) = sub

\* classify_vendor(row, sourcetype, source): <<vendor, event_kind>>
classify_vendor(sourcetype, source) ==
    LET st  == Lower(OrElse(sourcetype, <<>>))
        src == Lower(OrElse(source, <<>>))
    IN  IF Contains(<<"w", "a", "z", "u", "h", "-", "a", "l", "e", "r", "t", "s">>, st) THEN <<"wazuh", "alert">>
        ELSE IF Contains(<<"w", "a", "z", "u", "h">>, st) \/ Contains(<<"w", "i", "n", "e", "v", "e", "n", "t", "l", "o", "g">>, st)
             THEN IF Contains(<<"s", "y", "s", "m", "o", "n">>, src) \/ Contains(<<"s", "y", "s", "m", "o", "n">>, st)
                  THEN <<"sysmon", "process">>
                  ELSE <<"windows", "event">>
        ELSE IF Contains(<<"o", "p", "n", "s", "e", "n", "s", "e">>, st) \/ Contains(<<"s", "u", "r", "i", "c", "a", "t", "a">>, st) \/ Contains(<<"u", "d", "p", ":", "5", "5", "1", "4">>, src)
             THEN <<"opnsense", "network">>
        ELSE IF Contains(<<"n", "g", "i", "n", "x">>, st) \/ Contains(<<"j", "u", "i", "c", "e", "s", "h", "o", "p">>, st) \/ Contains(<<"a", "c", "c", "e", "s", "s", ".", "l", "o", "g">>, src)
             THEN <<"juiceshop", "web">>
        ELSE <<"unknown", "unknown">>

\* sourcetype and source values of the raw events the connector asks for
Sourcetypes ==
    { NoneS, <<>>,
      <<"w", "a", "z", "u", "h", "-", "a", "l", "e", "r", "t", "s">>,
      <<"j", "u", "i", "c", "e", "s", "h", "o", "p", ":", "a", "p", "p">>,
      <<"s", "u", "r", "i", "c", "a", "t", "a">>,
      <<"z", "e", "n", "a", "r", "m", "o", "r">>,
      <<"X", "m", "l", "W", "i", "n", "E", "v", "e", "n", "t", "L", "o", "g">>,
      <<"W", "i", "n", "E", "v", "e", "n", "t", "L", "o", "g">>,
      <<"s", "y", "s", "l", "o", "g">>,
      <<"o", "p", "n", "s", "e", "n", "s", "e">> }

Sources ==
    { NoneS,
      <<"u", "d", "p", ":", "5", "5", "1", "4">>,
      <<"h", "t", "t", "p", ":", "8", "0", "8", "8">>,
      <<"X", "m", "l", "W", "i", "n", "E", "v", "e", "n", "t", "L", "o", "g", ":", "S", "y", "s", "m", "o", "n">>,
      <<"/", "v", "a", "r", "/", "l", "o", "g", "/", "a", "c", "c", "e", "s", "s", ".", "l", "o", "g">>,
      <<"f", "i", "r", "e", "b", "a", "s", "e">>,
      <<"W", "i", "n", "E", "v", "e", "n", "t", "L", "o", "g", ":", "S", "e", "c", "u", "r", "i", "t", "y">> }

\* ------------------------------------------------------------------------
\* Stage 1: normalize.py
\* ------------------------------------------------------------------------

\* bound: number of raw events ever ingested
MaxRaw == 3

\* bound: LIMIT of one run_batch (5000 in main())
BatchLimit == 2

\* two runs of normalize.py may overlap (a retry started while a run hangs)
Runners == {"r1", "r2"}

\* Shapes of a raw_events row that take the different paths of
\* normalize_event and of the loop of run_batch.
\*   metric    : raw_text looks like vmstat output (starts with a digit, wide spacing)
\*   raw_json  : "dict" a JSON object without _time, "dict_time" one with _time,
\*               "null" SQL NULL, "array" a non-empty JSON array
\*   event_time: None or a time
RawShapes ==
    { [metric |-> FALSE, raw_json |-> "dict",      event_time |-> 1],
      [metric |-> TRUE,  raw_json |-> "dict",      event_time |-> 1],
      [metric |-> FALSE, raw_json |-> "array",     event_time |-> 1],
      [metric |-> FALSE, raw_json |-> "dict",      event_time |-> None],
      [metric |-> FALSE, raw_json |-> "dict_time", event_time |-> None],
      [metric |-> FALSE, raw_json |-> "null",      event_time |-> None] }

\* time carried by the _time key of a "dict_time" payload
JsonTime == 2

\* normalize_event(row): "empty" is the {} of the noise filter, "raise" an
\* exception (raw_json.get on a list), "ok" a normalized dict.
normalize_event(row) ==
    IF row.metric THEN [res |-> "empty", event_time |-> None]
    ELSE IF row.raw_json = "array" THEN [res |-> "raise", event_time |-> None]
    ELSE [res |-> "ok", event_time |-> row.event_time]

\* outcome "an exception is raised" of an expression that yields a time
Raised == -2

\* the evt_time expression of run_batch:
\*   norm.get("event_time") or r.get("event_time") or r.get("raw_json", {}).get("_time")
\* Raised when raw_json is NULL (None.get), outside of the try block.
EvtTime(row, norm) ==
    IF norm.event_time # None THEN norm.event_time
    ELSE IF row.event_time # None THEN row.event_time
    ELSE IF row.raw_json = "null" THEN Raised
    ELSE IF row.raw_json = "dict_time" THEN JsonTime
    ELSE None

\* SELECT r.* FROM raw_events r LEFT JOIN normalized_events n ON n.raw_id = r.id
\* WHERE n.raw_id IS NULL ORDER BY r.id ASC LIMIT limit
NormalizedRawIds(norm_tbl) == {norm_tbl[i].raw_id : i \in DOMAIN norm_tbl}

FetchUnnormalized(raw_tbl, norm_tbl, limit) ==
    LET pending == SelectSeq(raw_tbl, LAMBDA r : r.id \notin NormalizedRawIds(norm_tbl))
    IN  SubSeq(pending, 1, Min2(limit, Len(pending)))

\* the loop of run_batch over the fetched rows: the tuples of insert_rows;
\* raised is TRUE when a row makes the loop raise outside its try block.
RECURSIVE BuildInsertRows(_)
BuildInsertRows(rows) ==
    IF rows = <<>> THEN [raised |-> FALSE, ins |-> <<>>]
    ELSE LET r    == Head(rows)
             norm == normalize_event(r)
             rest == BuildInsertRows(Tail(rows))
         IN  IF norm.res = "raise" THEN rest            \* except: continue
             ELSE IF norm.res = "empty" THEN rest       \* if not norm: continue
             ELSE IF EvtTime(r, norm) = Raised THEN [raised |-> TRUE, ins |-> <<>>]
             ELSE IF EvtTime(r, norm) = None THEN rest  \* skipping - no event_time
             ELSE [raised |-> rest.raised,
                   ins |-> <<[raw_id |-> r.id, event_time |-> EvtTime(r, norm)]>> \o rest.ins]

\* INSERT INTO normalized_events ... VALUES %s (no conflict clause)
RECURSIVE InsertNoConflict(_, _)
InsertNoConflict(norm_tbl, ins) ==
    IF ins = <<>> THEN norm_tbl
    ELSE InsertNoConflict(Append(norm_tbl, Head(ins)), Tail(ins))

\* INSERT INTO normalized_events ... VALUES %s ON CONFLICT (raw_id) DO NOTHING
RECURSIVE InsertNormalized(_, _)
InsertNormalized(norm_tbl, ins) ==
    IF ins = <<>> THEN norm_tbl
    ELSE IF Head(ins).raw_id \in NormalizedRawIds(norm_tbl)
         THEN InsertNormalized(norm_tbl, Tail(ins))
         ELSE InsertNormalized(Append(norm_tbl, Head(ins)), Tail(ins))

\* seen: number of raw events stored when the run fetched; after: the run
\* fetched in a "caught up" store (both are history, used by the properties)
NIdle == [pc |-> "idle", rows |-> <<>>, seen |-> 0, after |-> FALSE]

\* the tables of the later stages, empty
\* correlate.py is not running: no connection, no open transaction
\* (last: the last turn of the loop that was committed or is still open;
\* last0: the same at the start of the open transaction; failed: a run was
\* undone after it attached a signal; retried: a run committed after that)
CorrIdle ==
    [pc |-> "idle", signals |-> <<>>, idx |-> 0, incidents |-> <<>>, evidence |-> {},
     last |-> [kind |-> "none", incident |-> 0, signal |-> 0],
     last0 |-> [kind |-> "none", incident |-> 0, signal |-> 0],
     failed |-> FALSE, retried |-> FALSE]

\* no function call is being followed
NoCall == [fn |-> "none"]

\* the scheduler before the loop of run.py is entered (pc: index of the next
\* command of the loop body, past the last one: the sleep; proc: the running
\* child process; started, codes: the commands started and the exit codes
\* returned in this iteration; erred: a command of an earlier iteration
\* exited with an error)
SchedIdle ==
    [pc |-> 0, proc |-> "none", SPLUNK_INGEST |-> FALSE, rc |-> 0,
     started |-> <<>>, codes |-> <<>>, iteration |-> 0, erred |-> FALSE]

\* the processes that run correlate.py when a second one is started before
\* the first has ended
CorrRunners == {"a", "b"}

\* a run of correlate.py that is not connected (signals: the ids fetched;
\* new, upd, links: the incidents inserted, the incidents updated and the
\* evidence inserted by the open transaction; scored: the signals whose
\* score the open transaction added to an incident)
RunIdle ==
    [pc |-> "idle", signals |-> <<>>, idx |-> 0, new |-> <<>>, upd |-> {}, links |-> {},
     scored |-> {}]

\* no run of correlate.py is connected (applied: history, how often the
\* score of each signal was committed to an incident; shared: history, the
\* signals two open runs held at once)
ConcIdle == [run |-> [p \in CorrRunners |-> RunIdle], applied |-> <<>>, shared |-> {}]

\* the tables and the process of the Correlator before its first run
CorrTablesEmpty ==
    /\ incidents = <<>>
    /\ incident_evidence = {}
    /\ corr = CorrIdle
    /\ call = NoCall
    /\ sched = SchedIdle
    /\ conc = ConcIdle

FeatTablesEmpty ==
    /\ features = {}
    /\ entity_stats = {}
    /\ feat_fresh = FALSE
    /\ feat_runs = 0
    /\ signal_events = <<>>
    /\ checkpoints = [j \in {"detections_main"} |-> None]
    /\ det = [pc |-> "idle", start_time |-> None, end_time |-> None, signals |-> {},
              hist |-> {}, nev |-> 0, built |-> 0, again |-> FALSE]

InitNorm ==
    /\ FeatTablesEmpty
    /\ now = 0
    /\ raw_events = <<>>
    /\ normalized_events = <<>>
    /\ nrun = [r \in Runners |-> NIdle]
    /\ caught_up = FALSE
    /\ norm_hist = [aborted |-> FALSE, rerun |-> FALSE]
    /\ CorrTablesEmpty
    /\ last_op = "init"

\* the ingestion collaborator stores a raw event (ids are a serial)
Ingest(shape) ==
    /\ Len(raw_events) < MaxRaw
    /\ raw_events' = Append(raw_events,
                        [id |-> Len(raw_events) + 1, metric |-> shape.metric,
                         raw_json |-> shape.raw_json, event_time |-> shape.event_time])
    /\ caught_up' = FALSE
    /\ norm_hist' = [norm_hist EXCEPT !.rerun = FALSE]
    /\ last_op' = "ingest"
    /\ UNCHANGED <<normalized_events, nrun>>

\* main() calls run_batch, which runs its SELECT
NormFetch(r) ==
    /\ nrun[r].pc \in {"idle", "loop"}
    /\ nrun' = [nrun EXCEPT ![r] =
                  [pc |-> "fetched",
                   rows |-> FetchUnnormalized(raw_events, normalized_events, BatchLimit),
                   seen |-> Len(raw_events),
                   after |-> caught_up]]
    /\ last_op' = "norm_fetch"
    /\ UNCHANGED <<raw_events, normalized_events, caught_up, norm_hist>>

\* the rest of run_batch and the branch main() takes on its result
NormFinish(r) ==
    /\ nrun[r].pc = "fetched"
    /\ LET rows == nrun[r].rows
           built == BuildInsertRows(rows)
           ins   == built.ins
       IN  IF built.raised
           THEN \* exception leaves "with conn": rollback; main() prints and breaks
                /\ nrun' = [nrun EXCEPT ![r] = NIdle]
                /\ norm_hist' = [norm_hist EXCEPT !.aborted = TRUE]
                /\ last_op' = "norm_raise"
                /\ UNCHANGED <<raw_events, normalized_events, caught_up>>
           ELSE /\ normalized_events' = InsertNormalized(normalized_events, ins)
                /\ norm_hist' = [norm_hist EXCEPT
                                   !.rerun = @ \/ (nrun[r].after /\ caught_up)]
                /\ IF Len(ins) > 0
                   THEN /\ nrun' = [nrun EXCEPT ![r] =
                                      [pc |-> "loop", rows |-> <<>>, seen |-> 0, after |-> FALSE]]
                        /\ last_op' = "norm_batch"
                        /\ UNCHANGED caught_up
                   ELSE /\ nrun' = [nrun EXCEPT ![r] = NIdle]
                        /\ last_op' = "norm_caught_up"
                        /\ caught_up' = (caught_up \/ nrun[r].seen = Len(raw_events))
                /\ UNCHANGED raw_events

\* a storage or connection error (or a kill) ends the run: nothing is committed
NormAbort(r) ==
    /\ nrun[r].pc \in {"fetched", "loop"}
    /\ nrun' = [nrun EXCEPT ![r] = NIdle]
    /\ norm_hist' = [norm_hist EXCEPT !.aborted = TRUE]
    /\ last_op' = "norm_abort"
    /\ UNCHANGED <<raw_events, normalized_events, caught_up>>

NextNorm ==
    \/ \E shape \in RawShapes : Ingest(shape) /\ UNCHANGED <<fvars, now, signal_events, checkpoints, det, cvars, call, sched, conc>>
    \/ \E r \in Runners : NormFetch(r) /\ UNCHANGED <<fvars, now, signal_events, checkpoints, det, cvars, call, sched, conc>>
    \/ \E r \in Runners : NormFinish(r) /\ UNCHANGED <<fvars, now, signal_events, checkpoints, det, cvars, call, sched, conc>>
    \/ \E r \in Runners : NormAbort(r) /\ UNCHANGED <<fvars, now, signal_events, checkpoints, det, cvars, call, sched, conc>>

SpecNorm == InitNorm /\ [][NextNorm]_vars


\* ------------------------------------------------------------------------
\* Stage 2: features.py
\* ------------------------------------------------------------------------

\* bound: number of normalized events in the store
MaxFeatEvents == 2

\* bound: number of committed runs of rollup_features
MaxRollups == 2

\* SQL NULL of a text column
Null == "NULL"

\* rollup_features(lookback_minutes): 60 when run as a script, as run.py does
LookbackMinutes == 60

\* bin_size_sec
BinSizeSec == 60

\* Normalized events of the shapes the aggregation rules tell apart.
FeatShapes ==
    { [vendor |-> "windows", event_kind |-> "alert", host |-> "web01", src_ip |-> "10.0.0.9",
       username |-> "alice", rule_id |-> "4625", signature |-> "EventCode=4625",
       severity |-> 2, http_path |-> Null, http_status |-> None],
      [vendor |-> "wazuh", event_kind |-> "alert", host |-> "web01", src_ip |-> Null,
       username |-> Null, rule_id |-> "5710", signature |-> "Wazuh: Critical sshd",
       severity |-> 7, http_path |-> Null, http_status |-> None],
      [vendor |-> "juiceshop", event_kind |-> "web", host |-> Null, src_ip |-> "10.0.0.9",
       username |-> Null, rule_id |-> "a1b2c3d4", signature |-> "GET /login",
       severity |-> 0, http_path |-> "/login", http_status |-> 500],
      [vendor |-> "opnsense", event_kind |-> "network", host |-> "fw01", src_ip |-> Null,
       username |-> Null, rule_id |-> "flow:dns", signature |-> "zenarmor:allowed:dns:out",
       severity |-> 0, http_path |-> Null, http_status |-> None] }

\* The normalized event of a Windows logon failure whose host field names
\* the HTTP event collector's port ("Infra Override" of normalize.py).
HecShapes ==
    { [vendor |-> "infra", event_kind |-> "metric", host |-> "splunk-hec:8088",
       src_ip |-> Null, username |-> Null, rule_id |-> "4625",
       signature |-> "pipeline_noise", severity |-> 0, http_path |-> Null,
       http_status |-> None] }

\* the rows the aggregation queries are evaluated on
AggShapes == FeatShapes \cup HecShapes

\* event times: two in the first minute, one in the second hour
FeatTimes == {20, 40, 3640}

\* clock readings at which the aggregator may run
FeatNows == {3600, 3630, 3700}

\* signature ILIKE '%ET TROJAN%' OR ... '%Wazuh: Critical%' OR '%Auth Failure%'
SuspiciousSig(sig) == sig \in {"Wazuh: Critical sshd"}

\* signature ILIKE '%allowed%' OR signature ILIKE '%zenarmor:allowed%'
AllowedSig(sig) == sig \in {"zenarmor:allowed:dns:out"}

\* COALESCE(col, 'unknown')
CoalesceUnknown(v) == IF v = Null THEN "unknown" ELSE v

\* date_trunc('minute', event_time)
DateTruncMinute(t) == (t \div BinSizeSec) * BinSizeSec

\* The ten aggregation queries: feature name, entity type, literal vendor
\* (Null when string_agg(distinct vendor)), row predicate, entity and
\* secondary expressions.
FeatureQueries ==
    << [feature_name |-> "auth_fail_count", entity_type |-> "host", vendor |-> "wazuh",
        secondary_type |-> "-",
        pred |-> [e \in AggShapes |-> e.rule_id = "4625"],
        entity |-> [e \in AggShapes |-> CoalesceUnknown(e.host)],
        secondary |-> [e \in AggShapes |-> "-"]],
       [feature_name |-> "auth_success_count", entity_type |-> "host", vendor |-> "wazuh",
        secondary_type |-> "-",
        pred |-> [e \in AggShapes |-> e.rule_id = "4624"],
        entity |-> [e \in AggShapes |-> CoalesceUnknown(e.host)],
        secondary |-> [e \in AggShapes |-> "-"]],
       [feature_name |-> "auth_fail_count", entity_type |-> "user", vendor |-> "wazuh",
        secondary_type |-> "-",
        pred |-> [e \in AggShapes |-> e.rule_id = "4625" /\ e.username # Null],
        entity |-> [e \in AggShapes |-> CoalesceUnknown(e.username)],
        secondary |-> [e \in AggShapes |-> "-"]],
       [feature_name |-> "src_ip_fail_count", entity_type |-> "host", vendor |-> "wazuh",
        secondary_type |-> "src_ip",
        pred |-> [e \in AggShapes |-> e.rule_id = "4625" /\ e.src_ip # Null],
        entity |-> [e \in AggShapes |-> CoalesceUnknown(e.host)],
        secondary |-> [e \in AggShapes |-> CoalesceUnknown(e.src_ip)]],
       [feature_name |-> "wazuh_alert_count", entity_type |-> "host", vendor |-> "wazuh",
        secondary_type |-> "-",
        pred |-> [e \in AggShapes |-> e.vendor = "wazuh"],
        entity |-> [e \in AggShapes |-> CoalesceUnknown(e.host)],
        secondary |-> [e \in AggShapes |-> "-"]],
       [feature_name |-> "juiceshop_error_count", entity_type |-> "endpoint",
        vendor |-> "juiceshop", secondary_type |-> "-",
        pred |-> [e \in AggShapes |-> e.vendor = "juiceshop"
                       /\ ((e.http_status # None /\ e.http_status >= 400)
                           \/ e.event_kind = "alert")],
        entity |-> [e \in AggShapes |-> CoalesceUnknown(e.http_path)],
        secondary |-> [e \in AggShapes |-> "-"]],
       [feature_name |-> "bad_event_count", entity_type |-> "host", vendor |-> Null,
        secondary_type |-> "-",
        pred |-> [e \in AggShapes |-> \/ e.severity >= 5
                                       \/ (e.http_status # None /\ e.http_status >= 400)
                                       \/ SuspiciousSig(e.signature)],
        entity |-> [e \in AggShapes |-> CoalesceUnknown(e.host)],
        secondary |-> [e \in AggShapes |-> "-"]],
       [feature_name |-> "zenarmor_allowed_count", entity_type |-> "host", vendor |-> Null,
        secondary_type |-> "-",
        pred |-> [e \in AggShapes |-> e.vendor = "opnsense" /\ AllowedSig(e.signature)],
        entity |-> [e \in AggShapes |-> CoalesceUnknown(e.host)],
        secondary |-> [e \in AggShapes |-> "-"]],
       [feature_name |-> "signature_count", entity_type |-> "host", vendor |-> Null,
        secondary_type |-> "signature",
        pred |-> [e \in AggShapes |-> e.signature # Null],
        entity |-> [e \in AggShapes |-> CoalesceUnknown(e.host)],
        secondary |-> [e \in AggShapes |-> CoalesceUnknown(e.signature)]],
       [feature_name |-> "src_ip_count", entity_type |-> "host", vendor |-> Null,
        secondary_type |-> "src_ip",
        pred |-> [e \in AggShapes |-> e.src_ip # Null],
        entity |-> [e \in AggShapes |-> CoalesceUnknown(e.host)],
        secondary |-> [e \in AggShapes |-> CoalesceUnknown(e.src_ip)]] >>

\* the columns of a normalized_events row that the aggregation rules read
ShapeOf(row) == [k \in DOMAIN row \ {"raw_id", "event_time"} |-> row[k]]

\* rows returned by one aggregation query at clock t_now
QueryRows(q, evs, t_now, lookback_minutes) ==
    LET matching == {i \in DOMAIN evs :
                        /\ evs[i].event_time > t_now - lookback_minutes * 60
                        /\ q.pred[ShapeOf(evs[i])]}
        GroupOf(i) == <<DateTruncMinute(evs[i].event_time),
                        q.entity[ShapeOf(evs[i])], q.secondary[ShapeOf(evs[i])]>>
        Count(g)   == Cardinality({i \in matching : GroupOf(i) = g})
    IN  { [bin_start |-> g[1], bin_size_sec |-> BinSizeSec,
           vendor |-> IF q.vendor # Null THEN {q.vendor}
                      ELSE {evs[i].vendor : i \in {j \in matching : GroupOf(j) = g}},
           feature_name |-> q.feature_name, entity_type |-> q.entity_type,
           entity_id |-> g[2], secondary_type |-> q.secondary_type, secondary_id |-> g[3],
           value |-> Count(g), n_events |-> Count(g)] : g \in {GroupOf(i) : i \in matching} }

\* ON CONFLICT (bin_start, bin_size_sec, feature_name, entity_type, entity_id, secondary_id)
FeatureKey(r) ==
    <<r.bin_start, r.bin_size_sec, r.feature_name, r.entity_type, r.entity_id, r.secondary_id>>

\* a stored row with the columns of features_timeseries
StoredRow(x, created) ==
    [bin_start |-> x.bin_start, bin_size_sec |-> x.bin_size_sec, vendor |-> x.vendor,
     feature_name |-> x.feature_name, entity_type |-> x.entity_type,
     entity_id |-> x.entity_id, secondary_type |-> x.secondary_type,
     secondary_id |-> x.secondary_id, value |-> x.value, n_events |-> x.n_events,
     created_at |-> created]

\* the upsert with "value = value + EXCLUDED.value" in place of "value = EXCLUDED.value"
UpsertIncrement(tbl, rows, t_now) ==
    LET Hit(r) == {x \in rows : FeatureKey(x) = FeatureKey(r)}
    IN  {r \in tbl : Hit(r) = {}}
        \cup { [r EXCEPT !.value = @ + (CHOOSE x \in Hit(r) : TRUE).value,
                         !.n_events = @ + (CHOOSE x \in Hit(r) : TRUE).n_events,
                         !.created_at = t_now] : r \in {y \in tbl : Hit(y) # {}} }
        \cup { StoredRow(x, t_now) :
                 x \in {y \in rows : \A r \in tbl : FeatureKey(r) # FeatureKey(y)} }

\* INSERT INTO features_timeseries ... ON CONFLICT (...) DO UPDATE SET
\*   value = EXCLUDED.value, n_events = EXCLUDED.n_events, created_at = NOW()
UpsertFeatures(tbl, rows, t_now) ==
    LET Hit(r) == {x \in rows : FeatureKey(x) = FeatureKey(r)}
    IN  {r \in tbl : Hit(r) = {}}
        \cup { [r EXCEPT !.value = (CHOOSE x \in Hit(r) : TRUE).value,
                         !.n_events = (CHOOSE x \in Hit(r) : TRUE).n_events,
                         !.created_at = t_now] : r \in {y \in tbl : Hit(y) # {}} }
        \cup { StoredRow(x, t_now) :
                 x \in {y \in rows : \A r \in tbl : FeatureKey(r) # FeatureKey(y)} }

\* for q in queries: execute, upsert
RECURSIVE RollupQueries(_, _, _, _, _)
RollupQueries(qs, tbl, evs, t_now, lookback_minutes) ==
    IF qs = <<>> THEN tbl
    ELSE RollupQueries(Tail(qs),
                       UpsertFeatures(tbl, QueryRows(Head(qs), evs, t_now, lookback_minutes), t_now),
                       evs, t_now, lookback_minutes)

SetSum(S, f(_)) ==
    LET RECURSIVE Sum(_)
        Sum(T) == IF T = {} THEN 0
                  ELSE LET x == CHOOSE y \in T : TRUE IN f(x) + Sum(T \ {x})
    IN  Sum(S)

SetMin(S) == CHOOSE x \in S : \A y \in S : x <= y

SetMax(S) == CHOOSE x \in S : \A y \in S : x >= y

\* INSERT INTO entity_stats ... SELECT entity_type, entity_id, min(bin_start),
\*   max(bin_start), sum(n_events) FROM features_timeseries
\*   WHERE created_at >= NOW() - INTERVAL '5 minutes' GROUP BY 1, 2
\* ON CONFLICT (entity_type, entity_id) DO UPDATE SET
\*   last_seen = GREATEST(...), event_count = entity_stats.event_count + EXCLUDED.event_count
UpsertEntityStats(stats, tbl, t_now) ==
    LET recent  == {r \in tbl : r.created_at >= t_now - 5 * 60}
        ents    == {<<r.entity_type, r.entity_id>> : r \in recent}
        Of(e)   == {r \in recent : <<r.entity_type, r.entity_id>> = e}
        NEv(r)  == r.n_events
        Excl(e) == [entity_type |-> e[1], entity_id |-> e[2],
                    first_seen |-> SetMin({r.bin_start : r \in Of(e)}),
                    last_seen |-> SetMax({r.bin_start : r \in Of(e)}),
                    event_count |-> SetSum(Of(e), NEv)]
        Has(e)  == \E st \in stats : <<st.entity_type, st.entity_id>> = e
    IN  {st \in stats : <<st.entity_type, st.entity_id>> \notin ents}
        \cup { [st EXCEPT !.last_seen = Max2(@, Excl(<<st.entity_type, st.entity_id>>).last_seen),
                          !.event_count = @ + Excl(<<st.entity_type, st.entity_id>>).event_count]
               : st \in {x \in stats : <<x.entity_type, x.entity_id>> \in ents} }
        \cup { Excl(e) : e \in {x \in ents : ~Has(x)} }

InitFeat ==
    /\ raw_events = <<>>
    /\ normalized_events = <<>>
    /\ nrun = [r \in Runners |-> NIdle]
    /\ caught_up = FALSE
    /\ norm_hist = [aborted |-> FALSE, rerun |-> FALSE]
    /\ FeatTablesEmpty
    /\ now = SetMin(FeatNows)
    /\ CorrTablesEmpty
    /\ last_op = "init"

\* the Normalizer commits a row (possibly for an event that happened long ago)
FeatAddEvent(shape, t) ==
    /\ Len(normalized_events) < MaxFeatEvents
    /\ normalized_events' = Append(normalized_events,
          [k \in DOMAIN shape \cup {"raw_id", "event_time"} |->
              IF k = "raw_id" THEN Len(normalized_events) + 1
              ELSE IF k = "event_time" THEN t ELSE shape[k]])
    /\ feat_fresh' = FALSE
    /\ last_op' = "feat_add_event"
    /\ UNCHANGED <<features, entity_stats, now, feat_runs>>

\* time passes
FeatTick(t) ==
    /\ t > now
    /\ now' = t
    /\ feat_fresh' = FALSE
    /\ last_op' = "tick"
    /\ UNCHANGED <<normalized_events, features, entity_stats, feat_runs>>

\* rollup_features(lookback_minutes) runs to its commit
Rollup ==
    /\ feat_runs < MaxRollups
    /\ feat_runs' = feat_runs + 1
    /\ features' = RollupQueries(FeatureQueries, features, normalized_events, now, LookbackMinutes)
    /\ entity_stats' = UpsertEntityStats(entity_stats, features', now)
    /\ feat_fresh' = TRUE
    /\ last_op' = "rollup"
    /\ UNCHANGED <<normalized_events, now>>

\* rollup_features hits an exception: rollback, nothing is stored
RollupFail ==
    /\ last_op' = "rollup_fail"
    /\ UNCHANGED <<normalized_events, features, entity_stats, now, feat_fresh, feat_runs>>

NextFeat ==
    \/ \E shape \in FeatShapes, t \in FeatTimes :
          FeatAddEvent(shape, t) /\ UNCHANGED <<raw_events, nrun, caught_up, norm_hist, signal_events, checkpoints, det, cvars, call, sched, conc>>
    \/ \E t \in FeatNows : FeatTick(t) /\ UNCHANGED <<raw_events, nrun, caught_up, norm_hist, signal_events, checkpoints, det, cvars, call, sched, conc>>
    \/ Rollup /\ UNCHANGED <<raw_events, nrun, caught_up, norm_hist, signal_events, checkpoints, det, cvars, call, sched, conc>>
    \/ RollupFail /\ UNCHANGED <<raw_events, nrun, caught_up, norm_hist, signal_events, checkpoints, det, cvars, call, sched, conc>>

SpecFeat == InitFeat /\ [][NextFeat]_vars

\* value and n_events of every bucket, by key
BucketValues(tbl) == {<<FeatureKey(r), r.value, r.n_events>> : r \in tbl}

\* ------------------------------------------------------------------------
\* Stage 3a: build_signals.py
\* ------------------------------------------------------------------------

\* bound: number of buckets in features_timeseries
MaxFeatRows == 3

\* timedelta(hours=1), in seconds
Hour == 3600

\* bound: number of rows in signal_events
MaxSigRows == 2

\* bin starts: 6h, 7h, 7h01
SigBins == {21600, 25200, 25260}

\* hosts the buckets are about
SigHosts == {"web01", "db01"}

\* counts a bucket may hold
SigValues == {1, 4, 6}

\* the buckets features.py may write that build_signals.py reads
SigFeatureRows ==
    { [bin_start |-> b, bin_size_sec |-> BinSizeSec, vendor |-> {"wazuh"},
       feature_name |-> "auth_fail_count", entity_type |-> "host", entity_id |-> h,
       secondary_type |-> "-", secondary_id |-> "-", value |-> v, n_events |-> v]
      : b \in SigBins, h \in SigHosts, v \in SigValues }

\* SELECT max(bin_start) FROM features_timeseries WHERE bin_size_sec = 60
FeatureNow(tbl) ==
    LET bins == {r.bin_start : r \in {x \in tbl : x.bin_size_sec = 60}}
    IN  IF bins = {} THEN None ELSE SetMax(bins)

\* rows of one feature and entity type with 60 s bins in (lo, hi]; hi = None: no upper end
WindowRows(tbl, feature, etype, lo, hi) ==
    {r \in tbl : /\ r.feature_name = feature
                 /\ r.entity_type = etype
                 /\ r.bin_size_sec = 60
                 /\ r.bin_start > lo
                 /\ (hi = None \/ r.bin_start <= hi)}

RowValue(r) == r.value

\* sum(value) of the rows of entity e
SumOf(rows, e) == SetSum({r \in rows : r.entity_id = e}, RowValue)

\* count of the rows of entity e (the divisor of avg(value))
CountOf(rows, e) == Cardinality({r \in rows : r.entity_id = e})

\* the WHERE clause of spike_sql with the floor dropped from the second test:
\* current_sum >= 5 AND current_sum > baseline_avg * 3
SpikeCondNoFloor(cur_sum, base_sum, base_n) ==
    /\ cur_sum >= 5
    /\ IF base_n = 0 THEN cur_sum > 0 ELSE cur_sum * base_n > 3 * base_sum

\* the WHERE clause of spike_sql:
\*   c.current_sum >= 5 AND c.current_sum > (COALESCE(b.baseline_avg, 0) * 3 + 5)
\* with baseline_avg = base_sum / base_n, multiplied out by base_n
SpikeCond(cur_sum, base_sum, base_n) ==
    /\ cur_sum >= 5
    /\ IF base_n = 0 THEN cur_sum > 5
       ELSE cur_sum * base_n > 3 * base_sum + 5 * base_n

\* score = current_sum / (baseline_avg + 0.1), rounded down to a whole number
SpikeScore(cur_sum, base_sum, base_n) ==
    IF base_n = 0 THEN cur_sum * 10
    ELSE (cur_sum * 10 * base_n) \div (10 * base_sum + base_n)

\* dedupe_key = f"{signal_name}|{entity_type}|{entity_id}|{ts_str}" with
\* ts_str = feature_now.strftime('%Y%m%d%H%M%S'): the text itself is the key
PlainDedupeKey(name, etype, eid, ts) == <<"text", name, etype, eid, ts>>

\* the rows the spike loop of build_signals inserts
AuthFailSpikes(tbl) ==
    LET fn   == FeatureNow(tbl)
        cur  == WindowRows(tbl, "auth_fail_count", "host", fn - Hour, None)
        base == WindowRows(tbl, "auth_fail_count", "host", fn - 7 * Hour, fn - Hour)
    IN  { [event_time |-> fn, window_start |-> fn - Hour, window_end |-> fn,
           signal_name |-> "auth_fail_spike", entity_type |-> "host", entity_id |-> e,
           severity |-> 7,
           score |-> SpikeScore(SumOf(cur, e), SumOf(base, e), CountOf(base, e)),
           dedupe_key |-> PlainDedupeKey("auth_fail_spike", "host", e, fn)]
          : e \in {x \in {r.entity_id : r \in cur} :
                     SpikeCond(SumOf(cur, x), SumOf(base, x), CountOf(base, x))} }

\* the rows the silent-agent loop inserts
SilentAgents(tbl) ==
    LET fn     == FeatureNow(tbl)
        base   == WindowRows(tbl, "event_count", "host", fn - 24 * Hour, fn - Hour)
        recent == WindowRows(tbl, "event_count", "host", fn - Hour, None)
    IN  { [event_time |-> fn, window_start |-> fn - Hour, window_end |-> fn,
           signal_name |-> "agent_silent", entity_type |-> "host", entity_id |-> e,
           severity |-> 3, score |-> 10,
           dedupe_key |-> PlainDedupeKey("agent_silent", "host", e, fn)]
          : e \in {x \in {r.entity_id : r \in base} :
                     /\ x \notin {r.entity_id : r \in recent}
                     /\ x # "(none)"} }

\* the rows the JuiceShop loop inserts; error_rate values are per cent here:
\*   avg(current) > 0.05 AND avg(current) > 2 * avg(baseline)
\* score = current_rate / (baseline_rate + 0.01), rounded down
AppErrorSpikes(tbl) ==
    LET fn   == FeatureNow(tbl)
        cur  == WindowRows(tbl, "error_rate", "endpoint", fn - Hour, None)
        base == WindowRows(tbl, "error_rate", "endpoint", fn - 7 * Hour, fn - Hour)
        Eid(e) == IF e \in {"", "(none)", Null} THEN "juiceshop_global" ELSE e
        Fires(e) ==
            /\ SumOf(cur, e) > 5 * CountOf(cur, e)
            /\ IF CountOf(base, e) = 0 THEN SumOf(cur, e) > 0
               ELSE SumOf(cur, e) * CountOf(base, e) > 2 * SumOf(base, e) * CountOf(cur, e)
        Score(e) ==
            IF CountOf(base, e) = 0 THEN SumOf(cur, e) \div CountOf(cur, e)
            ELSE (SumOf(cur, e) * CountOf(base, e))
                   \div (CountOf(cur, e) * (SumOf(base, e) + CountOf(base, e)))
    IN  { [event_time |-> fn, window_start |-> fn - Hour, window_end |-> fn,
           signal_name |-> "app_error_spike", entity_type |-> "application",
           entity_id |-> Eid(e), severity |-> 5, score |-> Score(e),
           dedupe_key |-> PlainDedupeKey("app_error_spike", "application", Eid(e), fn)]
          : e \in {x \in {r.entity_id : r \in cur} : Fires(x)} }

DedupeKeys(sig_tbl) == {sig_tbl[i].dedupe_key : i \in DOMAIN sig_tbl}

\* a stored signal_events row; processed_at starts NULL
SignalRow(id, x) ==
    [id |-> id, event_time |-> x.event_time, window_start |-> x.window_start,
     window_end |-> x.window_end, signal_name |-> x.signal_name,
     entity_type |-> x.entity_type, entity_id |-> x.entity_id, severity |-> x.severity,
     score |-> x.score, dedupe_key |-> x.dedupe_key, processed_at |-> None]

\* the INSERT in a transaction that is never committed
InsertSignalLost(sig_tbl, x) == sig_tbl

\* the INSERT without its ON CONFLICT clause and without the unique index
InsertSignalAlways(sig_tbl, x) ==
    Append(sig_tbl, SignalRow(Len(sig_tbl) + 1, x))

\* INSERT INTO signal_events ... ON CONFLICT (dedupe_key) DO NOTHING
InsertSignal(sig_tbl, x) ==
    IF x.dedupe_key \in DedupeKeys(sig_tbl) THEN sig_tbl
    ELSE Append(sig_tbl, SignalRow(Len(sig_tbl) + 1, x))

\* insert a set of rows, one statement each, in some order
RECURSIVE InsertSignals(_, _)
InsertSignals(sig_tbl, xs) ==
    IF xs = {} THEN sig_tbl
    ELSE LET x == CHOOSE y \in xs : TRUE
         IN  InsertSignals(InsertSignal(sig_tbl, x), xs \ {x})

\* all rows build_signals tries to insert, given the features
BuildSignalsRows(tbl) ==
    IF FeatureNow(tbl) = None THEN {}
    ELSE AuthFailSpikes(tbl) \cup SilentAgents(tbl) \cup AppErrorSpikes(tbl)

InitSig ==
    /\ raw_events = <<>>
    /\ normalized_events = <<>>
    /\ nrun = [r \in Runners |-> NIdle]
    /\ caught_up = FALSE
    /\ norm_hist = [aborted |-> FALSE, rerun |-> FALSE]
    /\ FeatTablesEmpty
    /\ now = 0
    /\ CorrTablesEmpty
    /\ last_op = "init"

\* features.py commits a bucket: a new one, or a recount of a stored one
SigFeatWrite(row) ==
    /\ \/ \E r \in features : FeatureKey(r) = FeatureKey(row)
       \/ Cardinality(features) < MaxFeatRows
    /\ features' = UpsertFeatures(features, {row}, now)
    /\ last_op' = "feat_write"
    /\ UNCHANGED signal_events

\* build_signals() runs to its end; every insert is committed on its own
BuildSignals ==
    /\ signal_events' = InsertSignals(signal_events, BuildSignalsRows(features))
    /\ Len(signal_events') <= MaxSigRows
    /\ last_op' = "build_signals"
    /\ UNCHANGED features

\* build_signals() dies on the way (connection lost, kill): the inserts made
\* so far stay committed
BuildSignalsPartial ==
    /\ \E done \in SUBSET BuildSignalsRows(features) :
          /\ done # BuildSignalsRows(features)
          /\ signal_events' = InsertSignals(signal_events, done)
          /\ Len(signal_events') <= MaxSigRows
    /\ last_op' = "build_signals_partial"
    /\ UNCHANGED features

NextSig ==
    \/ \E row \in SigFeatureRows :
          SigFeatWrite(row) /\ UNCHANGED <<normalized_events, now, upstream, checkpoints, det, cvars>>
    \/ BuildSignals /\ UNCHANGED <<normalized_events, now, upstream, checkpoints, det, cvars>>
    \/ BuildSignalsPartial /\ UNCHANGED <<normalized_events, now, upstream, checkpoints, det, cvars>>

SpecSig == InitSig /\ [][NextSig]_vars

\* the stored signals named name for entity (etype, eid) with window_end we
SignalsOf(sig_tbl, name, etype, eid, we) ==
    {i \in DOMAIN sig_tbl : /\ sig_tbl[i].signal_name = name
                            /\ sig_tbl[i].entity_type = etype
                            /\ sig_tbl[i].entity_id = eid
                            /\ sig_tbl[i].window_end = we}

\* ------------------------------------------------------------------------
\* Stage 3b: detections.py
\* ------------------------------------------------------------------------

\* bound: number of normalized events in the store of the detector
MaxDetEvents == 2

\* THRESHOLD_BAD_EVENT
ThresholdBadEvent == 50

\* LOOKBACK_MINUTES of detections.py
DetLookbackMinutes == 60

\* clock readings; the detector truncates them to the minute
DetNows == {25200, 25290, 25350}

\* event times
DetTimes == {25200, 25290}

\* normalized events the promoter tells apart: a severity-7 Wazuh alert whose
\* rule description is the text "auth_fail_spike", an IDS record of severity
\* 0 with a source address, a severity-4 record
DetShapes ==
    { [vendor |-> "wazuh", event_kind |-> "alert", host |-> "web01", src_ip |-> Null,
       dest_ip |-> Null, rule_id |-> "100200", signature |-> "auth_fail_spike", severity |-> 7],
      [vendor |-> "opnsense", event_kind |-> "ids", host |-> "fw01", src_ip |-> "10.0.0.9",
       dest_ip |-> Null, rule_id |-> "2019401", signature |-> "ET TROJAN beacon", severity |-> 0],
      [vendor |-> "windows", event_kind |-> "event", host |-> "web01", src_ip |-> Null,
       dest_ip |-> Null, rule_id |-> "4672", signature |-> "EventCode=4672", severity |-> 4] }

\* the event times of a shape: one time is enough for the record that no
\* detector reads (severity below 7, not an IDS record)
DetEventTimes(shape) ==
    IF shape.severity >= 7 \/ (shape.vendor = "opnsense" /\ shape.event_kind = "ids")
    THEN DetTimes ELSE {SetMin(DetTimes)}

\* buckets the store may hold when the detectors run
DetFeatureRows ==
    { [bin_start |-> 25200, bin_size_sec |-> BinSizeSec, vendor |-> {"wazuh"},
       feature_name |-> "auth_fail_count", entity_type |-> "host", entity_id |-> "web01",
       secondary_type |-> "-", secondary_id |-> "-", value |-> 6, n_events |-> 6,
       created_at |-> 25200],
      [bin_start |-> 25200, bin_size_sec |-> BinSizeSec, vendor |-> {"wazuh"},
       feature_name |-> "bad_event_count", entity_type |-> "host", entity_id |-> "web01",
       secondary_type |-> "-", secondary_id |-> "-", value |-> 30, n_events |-> 30,
       created_at |-> 25200],
      [bin_start |-> 25260, bin_size_sec |-> BinSizeSec, vendor |-> {"wazuh"},
       feature_name |-> "bad_event_count", entity_type |-> "host", entity_id |-> "web01",
       secondary_type |-> "-", secondary_id |-> "-", value |-> 30, n_events |-> 30,
       created_at |-> 25260] }

\* the store as features.py left it: buckets up to some minute, with or
\* without the bad_event_count metric
DetStores ==
    { {r \in DetFeatureRows : r.bin_start <= t /\ r.feature_name \in names}
        : t \in {0, 25200, 25260},
          names \in {{"auth_fail_count"}, {"auth_fail_count", "bad_event_count"}} }

\* datetime.now(timezone.utc).replace(second=0, microsecond=0)
TruncMinute(t) == (t \div 60) * 60

\* generate_dedupe_key: sha1 of f"{signal_name}|{entity_type}|{entity_id}|{window_end_iso}"
\* with window_end_iso = window_end.isoformat(); a digest, not the text
generate_dedupe_key(name, etype, eid, we) == <<"sha1", name, etype, eid, we>>

\* detect_spikes(conn, start_time, end_time)
detect_spikes(tbl, start_time, end_time) ==
    LET rows == {r \in tbl : /\ r.feature_name = "bad_event_count"
                             /\ r.bin_start >= start_time
                             /\ r.bin_start < end_time}
        ents == {<<r.entity_type, r.entity_id>> : r \in rows}
        Of(e) == {r \in rows : <<r.entity_type, r.entity_id>> = e}
    IN  { [event_time |-> None,
           window_start |-> SetMin({r.bin_start : r \in Of(e)}),
           window_end |-> SetMax({r.bin_start : r \in Of(e)}),
           signal_name |-> "Spike in Bad Events", entity_type |-> e[1], entity_id |-> e[2],
           severity |-> 7, score |-> SetSum(Of(e), RowValue),
           dedupe_key |-> generate_dedupe_key("Spike in Bad Events", e[1], e[2],
                                              SetMax({r.bin_start : r \in Of(e)}))]
          : e \in {x \in ents : SetSum(Of(x), RowValue) > ThresholdBadEvent} }

\* detect_raw_alerts(conn, start_time, end_time)
detect_raw_alerts(evs, start_time, end_time) ==
    LET hits == {i \in DOMAIN evs :
                    /\ evs[i].event_time >= start_time
                    /\ evs[i].event_time < end_time
                    /\ (evs[i].severity >= 7
                        \/ (evs[i].vendor = "opnsense" /\ evs[i].event_kind = "ids"))}
        EType(r) == IF r.vendor = "opnsense" /\ r.src_ip # Null THEN "ip" ELSE "host"
        EId(r)   == IF r.vendor = "opnsense" /\ r.src_ip # Null THEN r.src_ip ELSE r.host
        Name(r)  == IF r.signature # Null THEN r.signature ELSE <<r.vendor, " Alert">>
    IN  { [event_time |-> None,
           window_start |-> evs[i].event_time, window_end |-> evs[i].event_time,
           signal_name |-> Name(evs[i]), entity_type |-> EType(evs[i]),
           entity_id |-> EId(evs[i]),
           severity |-> IF evs[i].severity > 0 THEN evs[i].severity ELSE 4,
           score |-> 10,
           dedupe_key |-> generate_dedupe_key(Name(evs[i]), EType(evs[i]), EId(evs[i]),
                                              evs[i].event_time)]
          : i \in {j \in hits : EId(evs[j]) # Null /\ EId(evs[j]) # "unknown"} }

\* update_checkpoint with "last_window_end = EXCLUDED.last_window_end"
UpdateCheckpointOverwrite(cp, job_name, window_end) ==
    [cp EXCEPT ![job_name] = window_end]

\* update_checkpoint(conn, job_name, window_end): insert, or on conflict
\* last_window_end = GREATEST(detection_checkpoints.last_window_end, EXCLUDED.last_window_end)
update_checkpoint(cp, job_name, window_end) ==
    [cp EXCEPT ![job_name] = IF @ = None THEN window_end ELSE Max2(@, window_end)]

\* nev: the number of normalized events when the run scanned; history:
\* hist: the [start_time, end_time) and the nev of the last run that inserted
\* signals; built: runs of build_signals that reached their end, up to 2;
\* again: the insert of this run repeated the scan of that last run
DetIdle == [pc |-> "idle", start_time |-> None, end_time |-> None, signals |-> {},
            hist |-> {}, nev |-> 0, built |-> 0, again |-> FALSE]

\* the buckets and the events the two scans over [start_time, end_time) read,
\* of the first n normalized events
ScannedData(tbl, evs, n, start_time, end_time) ==
    <<{r \in tbl : /\ r.feature_name = "bad_event_count"
                   /\ r.bin_start >= start_time
                   /\ r.bin_start < end_time},
      {i \in 1..n : evs[i].event_time >= start_time /\ evs[i].event_time < end_time}>>

\* the scan of this run read what the scan of the last inserting run read
\* (features_timeseries is not written while the detectors are followed)
RepeatsLastScan ==
    \E rg \in det.hist :
       /\ det.nev = rg[3]
       /\ ScannedData(features, normalized_events, det.nev, det.start_time, det.end_time)
             = ScannedData(features, normalized_events, rg[3], rg[1], rg[2])

InitDet ==
    /\ raw_events = <<>>
    /\ normalized_events = <<>>
    /\ nrun = [r \in Runners |-> NIdle]
    /\ caught_up = FALSE
    /\ norm_hist = [aborted |-> FALSE, rerun |-> FALSE]
    /\ entity_stats = {}
    /\ feat_fresh = FALSE
    /\ feat_runs = 0
    /\ features \in DetStores
    /\ signal_events = <<>>
    /\ checkpoints = [j \in {"detections_main"} |-> None]
    /\ det = DetIdle
    /\ now = SetMin(DetNows)
    /\ CorrTablesEmpty
    /\ last_op = "init"

\* time passes
DetTick(t) ==
    /\ t > now
    /\ now' = t
    /\ last_op' = "tick"
    /\ UNCHANGED <<normalized_events, features, signal_events, checkpoints, det>>

\* the Normalizer commits a row
DetAddEvent(shape, t) ==
    /\ Len(normalized_events) < MaxDetEvents
    /\ normalized_events' = Append(normalized_events,
          [k \in DOMAIN shape \cup {"raw_id", "event_time"} |->
              IF k = "raw_id" THEN Len(normalized_events) + 1
              ELSE IF k = "event_time" THEN t ELSE shape[k]])
    /\ last_op' = "det_add_event"
    /\ UNCHANGED <<now, features, signal_events, checkpoints, det>>

\* run_detections up to the end of its two scans
DetStart ==
    /\ det.pc = "idle"
    /\ LET cp         == checkpoints["detections_main"]
           start_time == IF cp = None THEN TruncMinute(now) - DetLookbackMinutes * 60 ELSE cp
           end_time   == TruncMinute(now)
       IN  IF start_time >= end_time
           THEN /\ last_op' = "det_up_to_date"
                /\ UNCHANGED det
           ELSE /\ det' = [pc |-> "scanned", start_time |-> start_time, end_time |-> end_time,
                           hist |-> det.hist, nev |-> Len(normalized_events),
                           built |-> det.built, again |-> FALSE,
                           signals |-> detect_spikes(features, start_time, end_time)
                                        \cup detect_raw_alerts(normalized_events,
                                                               start_time, end_time)]
                /\ last_op' = "det_scan"
    /\ UNCHANGED <<now, normalized_events, features, signal_events, checkpoints>>

\* "if signals:" insert them in one statement and commit
DetInsert ==
    /\ det.pc = "scanned"
    /\ signal_events' = InsertSignals(signal_events, det.signals)
    /\ Len(signal_events') <= MaxSigRows
    /\ det' = [det EXCEPT !.pc = "inserted",
                          !.again = RepeatsLastScan,
                          !.hist = IF det.signals = {} THEN @
                                   ELSE {<<det.start_time, det.end_time, det.nev>>}]
    /\ last_op' = "det_insert"
    /\ UNCHANGED <<now, normalized_events, features, checkpoints>>

\* update_checkpoint(conn, "detections_main", end_time); the run ends
DetCheckpoint ==
    /\ det.pc = "inserted"
    /\ checkpoints' = update_checkpoint(checkpoints, "detections_main", det.end_time)
    /\ det' = [DetIdle EXCEPT !.start_time = det.start_time, !.end_time = det.end_time,
                              !.hist = det.hist, !.built = det.built]
    /\ last_op' = "det_checkpoint"
    /\ UNCHANGED <<now, normalized_events, features, signal_events>>

\* the run dies (exception, kill) before its next commit; what was committed stays
DetCrash ==
    /\ det.pc \in {"scanned", "inserted"}
    /\ det' = [DetIdle EXCEPT !.hist = det.hist, !.built = det.built]
    /\ last_op' = "det_crash"
    /\ UNCHANGED <<now, normalized_events, features, signal_events, checkpoints>>

\* a call of update_checkpoint from outside a run (an operator or a stale
\* writer), with any window_end
CheckpointCall(t) ==
    /\ det.pc = "idle"
    /\ checkpoints' = update_checkpoint(checkpoints, "detections_main", t)
    /\ det' = [DetIdle EXCEPT !.end_time = t, !.hist = det.hist, !.built = det.built]
    /\ last_op' = "checkpoint_call"
    /\ UNCHANGED <<now, normalized_events, features, signal_events>>

\* build_signals.py, run by the scheduler before detections.py
DetBuildSignals ==
    /\ det.pc = "idle"
    /\ BuildSignals
    /\ det' = [det EXCEPT !.built = Min2(@ + 1, 2)]
    /\ UNCHANGED <<now, normalized_events, checkpoints>>

NextDet ==
    \/ \E t \in DetNows : DetTick(t) /\ UNCHANGED <<upstream, cvars>>
    \/ \E shape \in DetShapes : \E t \in DetEventTimes(shape) :
          DetAddEvent(shape, t) /\ UNCHANGED <<upstream, cvars>>
    \/ DetStart /\ UNCHANGED <<upstream, cvars>>
    \/ DetInsert /\ UNCHANGED <<upstream, cvars>>
    \/ DetCheckpoint /\ UNCHANGED <<upstream, cvars>>
    \/ DetCrash /\ UNCHANGED <<upstream, cvars>>
    \/ \E t \in DetNows : CheckpointCall(TruncMinute(t)) /\ UNCHANGED <<upstream, cvars>>
    \/ DetBuildSignals /\ UNCHANGED <<upstream, cvars>>

SpecDet == InitDet /\ [][NextDet]_vars

\* detections.py run again and again by the scheduler, every run to its end,
\* while time passes and the Normalizer commits rows; nothing else writes
\* the checkpoint
NextDetRuns ==
    \/ \E t \in DetNows : DetTick(t) /\ UNCHANGED <<upstream, cvars>>
    \/ \E shape \in DetShapes : \E t \in DetEventTimes(shape) :
          DetAddEvent(shape, t) /\ UNCHANGED <<upstream, cvars>>
    \/ DetStart /\ UNCHANGED <<upstream, cvars>>
    \/ DetInsert /\ UNCHANGED <<upstream, cvars>>
    \/ DetCheckpoint /\ UNCHANGED <<upstream, cvars>>

SpecDetRuns == InitDet /\ [][NextDetRuns]_vars

\* ------------------------------------------------------------------------
\* Stage 4: correlate.py
\* ------------------------------------------------------------------------

\* bound: number of rows in signal_events
MaxCorrSignals == 3

\* INCIDENT_WINDOW_MINUTES
INCIDENT_WINDOW_MINUTES == 30

\* INTERVAL '4 hours'
LifetimeHours == 4

\* LEAST(%s, 50)
ScoreCap == 50

\* bound: the LIMIT of sql_fetch (500 in the source), scaled to the size of
\* the modelled table so that a batch can be cut by it
FetchLimit == 2

\* window_end of the signals: T, T + 10 min, T + 5 h
CorrTimes == {36000, 36600, 54000}

\* the clock of the Correlator's runs, after every window
CorrNow == 60000

\* what the detectors store: a one hour auth_fail_spike (score = sum / 0.1),
\* a one hour agent_silent, and a "Spike in Bad Events" whose window is the
\* span of the buckets found in the checkpointed range (one bucket, or five
\* hours of buckets after a long pause) and whose score is their sum
CorrSignalShapes ==
    {[event_time |-> t, window_start |-> t - Hour, window_end |-> t,
      signal_name |-> "auth_fail_spike", entity_type |-> "host", entity_id |-> "web01",
      severity |-> 7, score |-> 60,
      dedupe_key |-> PlainDedupeKey("auth_fail_spike", "host", "web01", t)]
        : t \in CorrTimes}
    \cup
    {[event_time |-> t, window_start |-> t - Hour, window_end |-> t,
      signal_name |-> "agent_silent", entity_type |-> "host", entity_id |-> e,
      severity |-> 3, score |-> 10,
      dedupe_key |-> PlainDedupeKey("agent_silent", "host", e, t)]
        : t \in CorrTimes, e \in {"web01"}}
    \cup
    {[event_time |-> 36000, window_start |-> 36000 - Hour, window_end |-> 36000,
      signal_name |-> "agent_silent", entity_type |-> "host", entity_id |-> "db01",
      severity |-> 3, score |-> 10,
      dedupe_key |-> PlainDedupeKey("agent_silent", "host", "db01", 36000)]}
    \cup
    {[event_time |-> t, window_start |-> t - len, window_end |-> t,
      signal_name |-> "Spike in Bad Events", entity_type |-> "host", entity_id |-> "web01",
      severity |-> 7, score |-> 500,
      dedupe_key |-> generate_dedupe_key("Spike in Bad Events", "host", "web01", t)]
        : t \in {36000, 36600}, len \in {0, 5 * Hour}}

\* the fetch with a WHERE clause no row satisfies
FetchNone(sig_tbl) == {}

\* the fetch without its WHERE clause
FetchAll(sig_tbl) == DOMAIN sig_tbl

\* WHERE processed_at IS NULL
Unprocessed(sig_tbl) == {i \in DOMAIN sig_tbl : sig_tbl[i].processed_at = None}

\* SELECT ... WHERE processed_at IS NULL ORDER BY window_end ASC LIMIT 500:
\* every order of the ids the ORDER BY allows (ties in any order)
FetchOrders(sig_tbl) ==
    LET ids == Unprocessed(sig_tbl)
        n   == Cardinality(ids)
        all == {f \in [1..n -> ids] :
                   /\ \A i, j \in 1..n : i < j => /\ f[i] # f[j]
                                                  /\ sig_tbl[f[i]].window_end
                                                        <= sig_tbl[f[j]].window_end}
    IN  {SubSeq(f, 1, Min2(n, FetchLimit)) : f \in all}

\* the WHERE clause without "AND status IN ('NEW', 'ACTIVE')"
MatchesAnyStatus(inc, sig) ==
    /\ inc.root_entity_type = sig.entity_type
    /\ inc.root_entity_id = sig.entity_id
    /\ inc.last_update_time >= sig.window_end - INCIDENT_WINDOW_MINUTES * 60
    /\ inc.start_time >= sig.window_end - LifetimeHours * Hour

\* the WHERE clause without "AND start_time >= %s - INTERVAL '4 hours'"
MatchesNoLifetime(inc, sig) ==
    /\ inc.root_entity_type = sig.entity_type
    /\ inc.root_entity_id = sig.entity_id
    /\ inc.status \in {"NEW", "ACTIVE"}
    /\ inc.last_update_time >= sig.window_end - INCIDENT_WINDOW_MINUTES * 60

\* the WHERE clause without "root_entity_type = %s AND root_entity_id = %s"
MatchesAnyEntity(inc, sig) ==
    /\ inc.status \in {"NEW", "ACTIVE"}
    /\ inc.last_update_time >= sig.window_end - INCIDENT_WINDOW_MINUTES * 60
    /\ inc.start_time >= sig.window_end - LifetimeHours * Hour

\* the WHERE clause of "Find matching incident"
Matches(inc, sig) ==
    /\ inc.root_entity_type = sig.entity_type
    /\ inc.root_entity_id = sig.entity_id
    /\ inc.status \in {"NEW", "ACTIVE"}
    /\ inc.last_update_time >= sig.window_end - INCIDENT_WINDOW_MINUTES * 60
    /\ inc.start_time >= sig.window_end - LifetimeHours * Hour

\* the same query with ORDER BY last_update_time ASC
FindIncidentOldest(inc_tbl, sig) ==
    LET m == {i \in DOMAIN inc_tbl : Matches(inc_tbl[i], sig)}
    IN  {i \in m : \A j \in m : inc_tbl[i].last_update_time <= inc_tbl[j].last_update_time}

\* ... ORDER BY last_update_time DESC LIMIT 1: the ids fetchone() can return
FindIncident(inc_tbl, sig) ==
    LET m == {i \in DOMAIN inc_tbl : Matches(inc_tbl[i], sig)}
    IN  {i \in m : \A j \in m : inc_tbl[i].last_update_time >= inc_tbl[j].last_update_time}

\* UPDATE incidents SET severity = the signal's severity (overwrite)
AttachOverwrite(inc, sig) ==
    [inc EXCEPT !.last_update_time = Max2(@, sig.window_end),
                !.end_time = Max2(@, sig.window_end),
                !.severity = sig.severity,
                !.score = @ + Min2(sig.score, ScoreCap)]

\* UPDATE incidents SET last_update_time = %s, end_time = %s (no GREATEST)
AttachLatest(inc, sig) ==
    [inc EXCEPT !.last_update_time = sig.window_end,
                !.end_time = sig.window_end,
                !.severity = Max2(@, sig.severity),
                !.score = @ + Min2(sig.score, ScoreCap)]

\* UPDATE incidents SET last_update_time = GREATEST(...), end_time = GREATEST(...),
\*   severity = GREATEST(...), score = score + LEAST(%s, 50)
Attach(inc, sig) ==
    [inc EXCEPT !.last_update_time = Max2(@, sig.window_end),
                !.end_time = Max2(@, sig.window_end),
                !.severity = Max2(@, sig.severity),
                !.score = @ + Min2(sig.score, ScoreCap)]

\* the INSERT with the signal's window_end bound to start_time as well
NewIncidentAtEnd(id, sig) ==
    [id |-> id, title |-> <<sig.signal_name, " on ", sig.entity_id>>, status |-> "NEW",
     severity |-> sig.severity, score |-> sig.score,
     root_entity_type |-> sig.entity_type, root_entity_id |-> sig.entity_id,
     start_time |-> sig.window_end, end_time |-> sig.window_end,
     last_update_time |-> sig.window_end]

\* INSERT INTO incidents (...) VALUES (title, 'NEW', severity, score, ...)
NewIncident(id, sig) ==
    [id |-> id, title |-> <<sig.signal_name, " on ", sig.entity_id>>, status |-> "NEW",
     severity |-> sig.severity, score |-> sig.score,
     root_entity_type |-> sig.entity_type, root_entity_id |-> sig.entity_id,
     start_time |-> sig.window_start, end_time |-> sig.window_end,
     last_update_time |-> sig.window_end]

\* the connection works on the committed tables plus its own uncommitted writes
CorrBegin(order) ==
    [pc |-> "loop", signals |-> order, idx |-> 0,
     incidents |-> incidents, evidence |-> incident_evidence,
     last |-> corr.last, last0 |-> corr.last,
     failed |-> corr.failed, retried |-> corr.retried]

\* what is left of the writes of a connection that closes without a commit,
\* if every statement were committed on its own
KeepPartial(committed, uncommitted) == uncommitted

\* conn.rollback(), or the server dropping the transaction of a dead client
Rollback(committed, uncommitted) == committed

\* the detectors store a signal
CorrAddSignal(x) ==
    /\ Len(signal_events) < MaxCorrSignals
    /\ x.dedupe_key \notin DedupeKeys(signal_events)
    /\ signal_events' = InsertSignal(signal_events, x)
    /\ last_op' = "add_signal"
    /\ UNCHANGED <<incidents, incident_evidence, corr>>

\* correlate_signals: nothing to process
CorrNoSignals ==
    /\ corr.pc = "idle"
    /\ Unprocessed(signal_events) = {}
    /\ last_op' = "corr_none"
    /\ UNCHANGED <<signal_events, incidents, incident_evidence, corr>>

\* correlate_signals: 1. Fetch Unprocessed Signals
CorrFetch ==
    /\ corr.pc = "idle"
    /\ Unprocessed(signal_events) # {}
    /\ \E order \in FetchOrders(signal_events) : corr' = CorrBegin(order)
    /\ last_op' = "corr_fetch"
    /\ UNCHANGED <<signal_events, incidents, incident_evidence>>

\* correlate_signals: 2. one turn of the loop over the fetched signals
CorrStep ==
    /\ corr.pc = "loop"
    /\ corr.idx < Len(corr.signals)
    /\ LET sig_id == corr.signals[corr.idx + 1]
           sig    == signal_events[sig_id]
           found  == FindIncident(corr.incidents, sig)
       IN  IF found # {}
           THEN \E incident_id \in found :
                  corr' = [corr EXCEPT
                      !.idx = @ + 1,
                      !.evidence = @ \cup {[incident_id |-> incident_id, signal_id |-> sig_id]},
                      !.incidents[incident_id] = Attach(@, sig),
                      !.last = [kind |-> "attach", incident |-> incident_id, signal |-> sig_id]]
           ELSE LET incident_id == Len(corr.incidents) + 1
                IN  corr' = [corr EXCEPT
                      !.idx = @ + 1,
                      !.incidents = Append(@, NewIncident(incident_id, sig)),
                      !.evidence = @ \cup {[incident_id |-> incident_id, signal_id |-> sig_id]},
                      !.last = [kind |-> "create", incident |-> incident_id, signal |-> sig_id]]
    /\ last_op' = "corr_step"
    /\ UNCHANGED <<signal_events, incidents, incident_evidence>>

\* correlate_signals: 3. Mark Signals as Processed, and conn.commit()
CorrCommit ==
    /\ corr.pc = "loop"
    /\ corr.idx = Len(corr.signals)
    /\ signal_events' = [i \in DOMAIN signal_events |->
                            IF i \in Range(corr.signals)
                            THEN [signal_events[i] EXCEPT !.processed_at = CorrNow]
                            ELSE signal_events[i]]
    /\ incidents' = corr.incidents
    /\ incident_evidence' = corr.evidence
    /\ corr' = [CorrIdle EXCEPT !.last = corr.last, !.last0 = corr.last,
                                !.failed = corr.failed, !.retried = corr.failed]
    /\ last_op' = "corr_commit"

\* correlate_signals: a statement raises (except: conn.rollback()), or the
\* process dies with the transaction open
CorrFail ==
    /\ corr.pc = "loop"
    /\ incidents' = Rollback(incidents, corr.incidents)
    /\ incident_evidence' = Rollback(incident_evidence, corr.evidence)
    /\ corr' = [CorrIdle EXCEPT !.last = corr.last0, !.last0 = corr.last0,
                                !.failed = corr.failed \/ (corr.idx > 0 /\ corr.last.kind = "attach"),
                                !.retried = corr.retried]
    /\ last_op' = "corr_fail"
    /\ UNCHANGED signal_events

InitCorr ==
    /\ raw_events = <<>>
    /\ normalized_events = <<>>
    /\ nrun = [r \in Runners |-> NIdle]
    /\ caught_up = FALSE
    /\ norm_hist = [aborted |-> FALSE, rerun |-> FALSE]
    /\ FeatTablesEmpty
    /\ now = CorrNow
    /\ CorrTablesEmpty
    /\ last_op = "init"

NextCorr ==
    \/ \E x \in CorrSignalShapes :
          CorrAddSignal(x) /\ UNCHANGED <<normalized_events, features, now, upstream, checkpoints, det>>
    \/ CorrNoSignals /\ UNCHANGED <<normalized_events, features, now, upstream, checkpoints, det>>
    \/ CorrFetch /\ UNCHANGED <<normalized_events, features, now, upstream, checkpoints, det>>
    \/ CorrStep /\ UNCHANGED <<normalized_events, features, now, upstream, checkpoints, det>>
    \/ CorrCommit /\ UNCHANGED <<normalized_events, features, now, upstream, checkpoints, det>>
    \/ CorrFail /\ UNCHANGED <<normalized_events, features, now, upstream, checkpoints, det>>

SpecCorr == InitCorr /\ [][NextCorr]_vars

\* ------------------------------------------------------------------------
\* Stage 4 twice: two processes run correlate.py at once. Each statement
\* reads what is committed plus the writes of its own transaction (READ
\* COMMITTED); an UPDATE of a row another open transaction has updated waits
\* for that transaction to end.
\* ------------------------------------------------------------------------

\* bound: number of rows in signal_events while two runs overlap
MaxConcSignals == 2

\* the signals stored while two runs overlap
ConcSignalShapes ==
    {x \in CorrSignalShapes :
        \/ x.signal_name = "auth_fail_spike" /\ x.window_end \in {36000, 36600}
        \/ x.entity_id = "db01"}

\* the incidents a statement of run p can see: the committed rows, with the
\* rows p updated in their new state, and the rows p inserted (numbered
\* -1, -2, ... until the commit makes them rows of the table)
ConcView(p) ==
    LET r == conc.run[p]
    IN  [i \in (DOMAIN incidents) \cup {-k : k \in DOMAIN r.new} |->
            IF i < 0 THEN r.new[-i]
            ELSE IF \E x \in r.upd : x.id = i THEN CHOOSE x \in r.upd : x.id = i
            ELSE incidents[i]]

\* the rows another open transaction has updated
ConcLocked(p) == UNION {{x.id : x \in conc.run[q].upd} : q \in CorrRunners \ {p}}

\* the detectors store a signal
ConcAddSignal(x) ==
    /\ Len(signal_events) < MaxConcSignals
    /\ x.dedupe_key \notin DedupeKeys(signal_events)
    /\ signal_events' = InsertSignal(signal_events, x)
    /\ conc' = [conc EXCEPT !.applied = Append(@, 0)]
    /\ last_op' = "add_signal"
    /\ UNCHANGED <<incidents, incident_evidence>>

\* correlate_signals: nothing to process
ConcNoSignals(p) ==
    /\ conc.run[p].pc = "idle"
    /\ Unprocessed(signal_events) = {}
    /\ last_op' = "corr_none"
    /\ UNCHANGED <<signal_events, incidents, incident_evidence, conc>>

\* correlate_signals: 1. Fetch Unprocessed Signals
ConcFetch(p) ==
    /\ conc.run[p].pc = "idle"
    /\ Unprocessed(signal_events) # {}
    /\ \E order \in FetchOrders(signal_events) :
          conc' = [conc EXCEPT
              !.run[p] = [RunIdle EXCEPT !.pc = "loop", !.signals = order],
              !.shared = @ \cup {s \in Range(order) :
                                    \E q \in CorrRunners \ {p} :
                                       /\ conc.run[q].pc = "loop"
                                       /\ s \in Range(conc.run[q].signals)}]
    /\ last_op' = "corr_fetch"
    /\ UNCHANGED <<signal_events, incidents, incident_evidence>>

\* correlate_signals: 2. one turn of the loop over the fetched signals
ConcStep(p) ==
    /\ conc.run[p].pc = "loop"
    /\ conc.run[p].idx < Len(conc.run[p].signals)
    /\ LET r      == conc.run[p]
           sig_id == r.signals[r.idx + 1]
           sig    == signal_events[sig_id]
           found  == FindIncident(ConcView(p), sig)
       IN  IF found # {}
           THEN \E incident_id \in found :
                  /\ incident_id \notin ConcLocked(p)
                  /\ conc' = [conc EXCEPT !.run[p] =
                        [r EXCEPT
                           !.idx = @ + 1,
                           !.links = @ \cup {[incident_id |-> incident_id, signal_id |-> sig_id]},
                           !.new = IF incident_id < 0
                                   THEN [@ EXCEPT ![-incident_id] = Attach(@, sig)]
                                   ELSE @,
                           !.upd = IF incident_id < 0 THEN @
                                   ELSE {x \in @ : x.id # incident_id}
                                           \cup {Attach(ConcView(p)[incident_id], sig)},
                           !.scored = @ \cup {sig_id}]]
           ELSE conc' = [conc EXCEPT !.run[p] =
                        [r EXCEPT
                           !.idx = @ + 1,
                           !.new = Append(@, NewIncident(-(Len(@) + 1), sig)),
                           !.links = @ \cup {[incident_id |-> -(Len(r.new) + 1),
                                              signal_id |-> sig_id]},
                           !.scored = @ \cup {sig_id}]]
    /\ last_op' = "corr_step"
    /\ UNCHANGED <<signal_events, incidents, incident_evidence>>

\* correlate_signals: 3. Mark Signals as Processed, and conn.commit()
ConcCommit(p) ==
    /\ conc.run[p].pc = "loop"
    /\ conc.run[p].idx = Len(conc.run[p].signals)
    /\ LET r    == conc.run[p]
           base == Len(incidents)
           Id(i) == IF i < 0 THEN base - i ELSE i
       IN  /\ incidents' =
                [i \in DOMAIN incidents |->
                    IF \E x \in r.upd : x.id = i THEN CHOOSE x \in r.upd : x.id = i
                    ELSE incidents[i]]
                \o [k \in DOMAIN r.new |-> [r.new[k] EXCEPT !.id = base + k]]
           /\ incident_evidence' = incident_evidence
                \cup {[incident_id |-> Id(l.incident_id), signal_id |-> l.signal_id]
                         : l \in r.links}
           /\ signal_events' = [i \in DOMAIN signal_events |->
                                   IF i \in Range(r.signals)
                                   THEN [signal_events[i] EXCEPT !.processed_at = CorrNow]
                                   ELSE signal_events[i]]
           /\ conc' = [conc EXCEPT
                 !.run[p] = RunIdle,
                 !.applied = [i \in DOMAIN @ |-> IF i \in r.scored THEN @[i] + 1 ELSE @[i]]]
    /\ last_op' = "corr_commit"

\* correlate_signals: a statement raises (except: conn.rollback()), the
\* server ends a deadlock, or the process dies with the transaction open
ConcFail(p) ==
    /\ conc.run[p].pc = "loop"
    /\ conc' = [conc EXCEPT !.run[p] = RunIdle]
    /\ last_op' = "corr_fail"
    /\ UNCHANGED <<signal_events, incidents, incident_evidence>>

\* the variables no run of correlate.py writes
noconc == <<raw_events, normalized_events, nrun, caught_up, norm_hist, fvars, now,
            checkpoints, det, corr, call, sched>>

InitConc ==
    /\ raw_events = <<>>
    /\ normalized_events = <<>>
    /\ nrun = [r \in Runners |-> NIdle]
    /\ caught_up = FALSE
    /\ norm_hist = [aborted |-> FALSE, rerun |-> FALSE]
    /\ FeatTablesEmpty
    /\ now = CorrNow
    /\ CorrTablesEmpty
    /\ last_op = "init"

NextConc ==
    \/ \E x \in ConcSignalShapes : ConcAddSignal(x) /\ UNCHANGED noconc
    \/ \E p \in CorrRunners : ConcNoSignals(p) /\ UNCHANGED noconc
    \/ \E p \in CorrRunners : ConcFetch(p) /\ UNCHANGED noconc
    \/ \E p \in CorrRunners : ConcStep(p) /\ UNCHANGED noconc
    \/ \E p \in CorrRunners : ConcCommit(p) /\ UNCHANGED noconc
    \/ \E p \in CorrRunners : ConcFail(p) /\ UNCHANGED noconc

SpecConc == InitConc /\ [][NextConc]_vars

\* bound: rows of signal_events while an operator triages the incidents
MaxTriageSignals == 2

\* the variables no step of the Correlator or of the operator writes
nocorr == <<normalized_events, features, now, upstream, checkpoints, det>>

\* correlate.py run again and again by the scheduler with no storage error,
\* while the detectors store signals: a run that started reaches its commit
\* and the next run starts
NextCorrLive ==
    \/ \E x \in ConcSignalShapes : CorrAddSignal(x) /\ UNCHANGED nocorr
    \/ CorrNoSignals /\ UNCHANGED nocorr
    \/ CorrFetch /\ UNCHANGED nocorr
    \/ CorrStep /\ UNCHANGED nocorr
    \/ CorrCommit /\ UNCHANGED nocorr

SpecCorrLive ==
    /\ InitCorr
    /\ [][NextCorrLive]_vars
    /\ WF_vars(CorrFetch /\ UNCHANGED nocorr)
    /\ WF_vars(CorrStep /\ UNCHANGED nocorr)
    /\ WF_vars(CorrCommit /\ UNCHANGED nocorr)

\* the detectors store a signal
TriageAddSignal(x) ==
    /\ Len(signal_events) < MaxTriageSignals
    /\ x.dedupe_key \notin DedupeKeys(signal_events)
    /\ signal_events' = InsertSignal(signal_events, x)
    /\ last_op' = "add_signal"
    /\ UNCHANGED <<incidents, incident_evidence, corr>>

\* an operator, outside the Correlator, acknowledges an incident (ACTIVE) or
\* closes it (CLOSED); the statement waits while the open transaction of the
\* Correlator holds a write on the row, and once committed it is seen by the
\* later statements of that transaction
SetStatus(i, st) ==
    /\ i \in DOMAIN incidents
    /\ corr.pc = "loop" => corr.incidents[i] = incidents[i]
    /\ <<incidents[i].status, st>> \in {<<"NEW", "ACTIVE">>, <<"NEW", "CLOSED">>,
                                        <<"ACTIVE", "CLOSED">>}
    /\ incidents' = [incidents EXCEPT ![i].status = st]
    /\ corr' = IF corr.pc = "loop" THEN [corr EXCEPT !.incidents[i].status = st] ELSE corr
    /\ last_op' = "set_status"
    /\ UNCHANGED <<signal_events, incident_evidence>>

NextTriage ==
    \/ \E x \in CorrSignalShapes : TriageAddSignal(x) /\ UNCHANGED nocorr
    \/ \E i \in 1..MaxTriageSignals, st \in {"ACTIVE", "CLOSED"} :
          SetStatus(i, st) /\ UNCHANGED nocorr
    \/ CorrNoSignals /\ UNCHANGED nocorr
    \/ CorrFetch /\ UNCHANGED nocorr
    \/ CorrStep /\ UNCHANGED nocorr
    \/ CorrCommit /\ UNCHANGED nocorr
    \/ CorrFail /\ UNCHANGED nocorr

SpecTriage == InitCorr /\ [][NextTriage]_vars

\* the committed links of incident id, and the signals they name
LinksOf(ev_tbl, id) == {l \in ev_tbl : l.incident_id = id}

\* ------------------------------------------------------------------------
\* Calls of the functions of normalize.py
\* ------------------------------------------------------------------------

\* the stores and the processes around a function call: nothing has run
PipelineIdle ==
    /\ raw_events = <<>>
    /\ normalized_events = <<>>
    /\ nrun = [r \in Runners |-> NIdle]
    /\ caught_up = FALSE
    /\ norm_hist = [aborted |-> FALSE, rerun |-> FALSE]
    /\ FeatTablesEmpty
    /\ now = 0
    /\ incidents = <<>>
    /\ incident_evidence = {}
    /\ corr = CorrIdle
    /\ conc = ConcIdle
    /\ last_op = "init"

\* the variables a function call leaves alone
nocall == <<raw_events, normalized_events, nrun, caught_up, norm_hist, fvars, now,
            signal_events, checkpoints, det, cvars, sched, conc>>

\* classify_vendor is about to be called with the metadata of a raw event
InitClassify ==
    /\ PipelineIdle
    /\ sched = SchedIdle
    /\ call \in {[fn |-> "classify_vendor", sourcetype |-> st, source |-> src,
                  done |-> FALSE, ret |-> <<>>] : st \in Sourcetypes, src \in Sources}

\* the call returns
ClassifyReturn ==
    /\ call.fn = "classify_vendor"
    /\ ~ call.done
    /\ call' = [call EXCEPT !.done = TRUE,
                            !.ret = classify_vendor(call.sourcetype, call.source)]
    /\ last_op' = "classify_vendor"
    /\ UNCHANGED nocall

NextClassify == ClassifyReturn

SpecClassify == InitClassify /\ [][NextClassify]_vars

\* ------------------------------------------------------------------------
\* normalize_event: the severity of a normalized event
\* ------------------------------------------------------------------------

LowerToUpper ==
    ("a" :> "A") @@ ("b" :> "B") @@ ("c" :> "C") @@ ("d" :> "D") @@ ("e" :> "E") @@ ("f" :> "F") @@
    ("g" :> "G") @@ ("h" :> "H") @@ ("i" :> "I") @@ ("j" :> "J") @@ ("k" :> "K") @@ ("l" :> "L") @@
    ("m" :> "M") @@ ("n" :> "N") @@ ("o" :> "O") @@ ("p" :> "P") @@ ("q" :> "Q") @@ ("r" :> "R") @@
    ("s" :> "S") @@ ("t" :> "T") @@ ("u" :> "U") @@ ("v" :> "V") @@ ("w" :> "W") @@ ("x" :> "X") @@
    ("y" :> "Y") @@ ("z" :> "Z")

\* str.upper()
Upper(s) == [i \in DOMAIN s |-> IF s[i] \in DOMAIN LowerToUpper THEN LowerToUpper[s[i]] ELSE s[i]]

\* str.strip()
RECURSIVE Strip(_)
Strip(s) ==
    IF s # <<>> /\ Head(s) = " " THEN Strip(Tail(s))
    ELSE IF s # <<>> /\ s[Len(s)] = " " THEN Strip(SubSeq(s, 1, Len(s) - 1))
    ELSE s

Digits == <<"0", "1", "2", "3", "4", "5", "6", "7", "8", "9">>

DigitVal(c) == CHOOSE d \in 0..9 : Digits[d + 1] = c

RECURSIVE DecVal(_)
DecVal(s) == IF s = <<>> THEN 0 ELSE 10 * DecVal(SubSeq(s, 1, Len(s) - 1)) + DigitVal(s[Len(s)])

\* int(s) for a str of the shapes met here: Raised unless s is decimal digits
ParseInt(s) == IF s # <<>> /\ \A i \in DOMAIN s : s[i] \in Range(Digits) THEN DecVal(s) ELSE Raised

\* str(n) for an int n >= 0
RECURSIVE IntToStr(_)
IntToStr(n) == IF n < 10 THEN <<Digits[n + 1]>> ELSE IntToStr(n \div 10) \o <<Digits[(n % 10) + 1]>>

\* a value of out["severity"] or of rule["level"]: None, an int or a str
VNone == [k |-> "none", i |-> 0, s |-> <<>>]

VInt(n) == [k |-> "int", i |-> n, s |-> <<>>]

VStr(str) == [k |-> "str", i |-> 0, s |-> str]

\* Python truth of such a value
Truthy(x) == \/ (x.k = "int" /\ x.i # 0)
             \/ (x.k = "str" /\ x.s # <<>>)

\* "Windows Severity Mapping": Type / Level / LevelDisplayName
WinTypeSeverity(win_type, sev) ==
    IF win_type = NoneS \/ win_type = <<>> THEN sev
    ELSE LET wt == Lower(win_type)
         IN  IF Contains(<<"e", "r", "r", "o", "r">>, wt) \/ Contains(<<"c", "r", "i", "t">>, wt) THEN VInt(7)
             ELSE IF Contains(<<"w", "a", "r", "n">>, wt) THEN VInt(4)
             ELSE IF Contains(<<"i", "n", "f", "o">>, wt) THEN VInt(1)
             ELSE sev

\* "Rule Metadata": rule["level"]
LevelSeverity(row, sev) ==
    IF ~ row.rule_dict \/ ~ Truthy(row.level) THEN sev
    ELSE LET ilev == IF row.level.k = "int" THEN row.level.i ELSE ParseInt(Strip(row.level.s))
         IN  IF ilev = Raised THEN VStr(row.level.s)            \* except: str(lev)
             ELSE IF ilev >= 12 THEN VInt(7)
             ELSE IF ilev >= 7 THEN VInt(4)
             ELSE VInt(1)

\* out["rule_id"] of the Windows / Wazuh path: EventCode= of the message, then
\* str(rule.get("id")) when still empty, then str(raw_json["EventCode"])
WinRuleId(row) ==
    LET r1 == row.msg_code
        r2 == IF row.rule_dict /\ (r1 = NoneS \/ r1 = <<>>)
              THEN (IF row.rule_id = NoneS THEN <<"N", "o", "n", "e">> ELSE row.rule_id)
              ELSE r1
    IN  IF row.event_code # NoneS THEN row.event_code ELSE r2

\* "4625 = Auth Fail -> Alert" and the LAB BURST override
AuthFailSeverity(row, sev) ==
    IF WinRuleId(row) # <<"4", "6", "2", "5">> THEN sev
    ELSE IF Contains(<<"L", "A", "B", "_", "B", "U", "R", "S", "T">>, Upper(OrElse(row.username, <<>>))) THEN VInt(7)
    ELSE VInt(2)

\* "App Log Handling" of the juiceshop path
JuiceSeverity(row, sev) ==
    IF row.status_code # None /\ row.status_code # 0 THEN sev
    ELSE LET lower_msg == Lower(Strip(row.message))
         IN  IF Contains(<<"e", "r", "r", "o", "r", ":">>, lower_msg) THEN VStr(<<"e", "r", "r", "o", "r">>)
             ELSE IF Contains(<<"w", "a", "r", "n", ":">>, lower_msg) THEN VStr(<<"w", "a", "r", "n">>)
             ELSE sev

\* the opnsense path: Suricata "Priority: n", then a blocked Zenarmor flow
OpnSeverity(row, sev) ==
    LET s1 == IF row.alert_json \/ ~ row.suricata THEN sev
              ELSE IF row.priority = 1 THEN VInt(7)
              ELSE IF row.priority = 2 THEN VInt(4)
              ELSE IF row.priority = 3 THEN VInt(1)
              ELSE sev
    IN  IF ~ row.alert_json /\ row.zenarmor = "blocked" THEN VInt(4) ELSE s1

\* "Final Polish": severity normalized to an int
FinalSeverity(sev) ==
    IF ~ Truthy(sev) THEN 0
    ELSE LET s_str == Lower(Strip(IF sev.k = "int" THEN IntToStr(sev.i) ELSE sev.s))
         IN  IF s_str \in {<<"e", "r", "r", "o", "r">>, <<"c", "r", "i", "t", "i", "c", "a", "l">>, <<"h", "i", "g", "h">>, <<"e", "r", "r">>, <<"s", "e", "v", "e", "r", "e">>} THEN 7
             ELSE IF s_str \in {<<"w", "a", "r", "n">>, <<"m", "e", "d", "i", "u", "m">>, <<"w", "a", "r", "n", "i", "n", "g">>} THEN 4
             ELSE IF s_str \in {<<"i", "n", "f", "o">>, <<"l", "o", "w">>, <<"i", "n", "f", "o", "r", "m", "a", "t", "i", "o", "n", "a", "l">>} THEN 1
             ELSE IF s_str = <<"d", "e", "b", "u", "g">> THEN 0
             ELSE IF ParseInt(s_str) = Raised THEN 0
             ELSE ParseInt(s_str)

\* normalize_event(row)["vendor"] and ["severity"]
normalize_event_severity(row) ==
    LET vendor == classify_vendor(row.sourcetype, row.source)[1]
        sev == IF vendor \in {"wazuh", "sysmon", "windows"}
               THEN AuthFailSeverity(row, LevelSeverity(row, WinTypeSeverity(row.win_type, VNone)))
               ELSE IF vendor = "juiceshop" THEN JuiceSeverity(row, VNone)
               ELSE IF vendor = "opnsense" THEN OpnSeverity(row, VNone)
               ELSE VNone
        hec == ~ (row.host = NoneS \/ row.host = <<>>) /\ Contains(<<"8", "0", "8", "8">>, row.host)
    IN  [vendor |-> IF hec THEN "infra" ELSE vendor,
         severity |-> IF hec THEN 0 ELSE FinalSeverity(sev)]

\* the names of vendors and event kinds as text
NameText ==
    [n \in {"wazuh", "sysmon", "windows", "opnsense", "juiceshop", "unknown", "alert",
            "process", "event", "network", "web"} |->
        CASE n = "wazuh" -> <<"w", "a", "z", "u", "h">> [] n = "sysmon" -> <<"s", "y", "s", "m", "o", "n">>
          [] n = "windows" -> <<"w", "i", "n", "d", "o", "w", "s">> [] n = "opnsense" -> <<"o", "p", "n", "s", "e", "n", "s", "e">>
          [] n = "juiceshop" -> <<"j", "u", "i", "c", "e", "s", "h", "o", "p">> [] n = "unknown" -> <<"u", "n", "k", "n", "o", "w", "n">>
          [] n = "alert" -> <<"a", "l", "e", "r", "t">> [] n = "process" -> <<"p", "r", "o", "c", "e", "s", "s">>
          [] n = "event" -> <<"e", "v", "e", "n", "t">> [] n = "network" -> <<"n", "e", "t", "w", "o", "r", "k">>
          [] n = "web" -> <<"w", "e", "b">>]

\* hashlib.md5(s.encode("utf-8")).hexdigest()[:8]: eight hexadecimal digits
\* determined by s, kept as s under a tag
Md5Hex8(s) == <<"m", "d", "5", ":">> \o s

\* not x, for a str or None
Falsy(x) == x = NoneS \/ x = <<>>

\* str(x) for a str or None
Str(x) == IF x = NoneS THEN <<"N", "o", "n", "e">> ELSE x

\* the Windows / Wazuh path: out["signature"] from rule["description"], then
\* "Fallback Signature for WinEventLog / Wazuh"
WinSignature(row) ==
    LET s1 == IF row.rule_dict THEN row.rule_desc ELSE NoneS
    IN  IF ~ Falsy(s1) THEN s1
        ELSE IF ~ Falsy(WinRuleId(row)) THEN <<"E", "v", "e", "n", "t", "C", "o", "d", "e", "=">> \o WinRuleId(row)
        ELSE IF ~ Falsy(row.win_source) THEN <<"S", "o", "u", "r", "c", "e", "N", "a", "m", "e", "=">> \o row.win_source
        ELSE s1

\* the Windows / Wazuh path: out["event_kind"]
WinKind(row, kind) ==
    LET k1 == IF row.rule_dict /\ row.rule_auth_failed THEN "alert" ELSE kind
        k2 == IF WinRuleId(row) = <<"3">> THEN "network" ELSE k1
        k3 == IF WinRuleId(row) = <<"4", "6", "2", "5">> THEN "alert" ELSE k2
        k4 == IF WinRuleId(row) = <<"4", "6", "2", "4">> THEN "auth" ELSE k3
    IN  IF WinRuleId(row) = <<"5", "1", "5", "6">> THEN "network" ELSE k4

\* the juiceshop path: "App Log Handling", the signature of an application
\* log line is its first 50 characters
JuiceSignature(row) ==
    LET clean_msg == Strip(row.message)
    IN  IF row.status_code # None /\ row.status_code # 0 THEN NoneS
        ELSE IF clean_msg = <<>> THEN NoneS
        ELSE IF Len(clean_msg) > 50 THEN SubSeq(clean_msg, 1, 50) \o <<".", ".">>
        ELSE clean_msg

\* the juiceshop path: out["event_kind"]
JuiceKind(row, kind) ==
    IF (row.status_code = None \/ row.status_code = 0)
       /\ Contains(<<"e", "r", "r", "o", "r", ":">>, Lower(Strip(row.message)))
    THEN "alert" ELSE kind

\* the opnsense path, Zenarmor flow JSON parsed: <<rule_id, signature>>
ZenFlow(row) ==
    LET action == IF row.zenarmor = "blocked" THEN <<"b", "l", "o", "c", "k", "e", "d">> ELSE <<"a", "l", "l", "o", "w", "e", "d">>
        proto  == OrElse(row.z_proto, <<"u", "n", "k", "n", "o", "w", "n">>)
    IN  <<<<"f", "l", "o", "w", ":">> \o proto,
          <<"z", "e", "n", "a", "r", "m", "o", "r", ":">> \o action \o <<":">> \o proto \o <<":">> \o OrElse(row.z_direction, <<"u", "n", "k", "n", "o", "w", "n">>)>>

\* the opnsense path: <<rule_id, signature, event_kind>>
OpnKeys(row, kind) ==
    LET zen_ok == row.zenarmor \in {"blocked", "allowed"}
        \* 1. JSON fields, or 2. the regular expressions on the syslog payload
        a == IF row.alert_json
             THEN <<Str(row.alert_sid), row.alert_sig, "ids">>
             ELSE LET r1 == IF row.suricata /\ row.sid # NoneS THEN row.sid ELSE NoneS
                      s1 == IF row.suricata /\ row.syslog_sig # NoneS THEN row.syslog_sig ELSE NoneS
                      k1 == IF ~ row.suricata THEN kind
                            ELSE IF row.priority \in {1, 2} THEN "alert" ELSE "ids"
                      r2 == IF zen_ok THEN ZenFlow(row)[1] ELSE r1
                      s2 == IF zen_ok THEN ZenFlow(row)[2] ELSE s1
                      k2 == IF row.zenarmor = "blocked" THEN "alert"
                            ELSE IF row.zenarmor = "allowed" THEN "network" ELSE k1
                  IN  IF Falsy(s2) /\ row.zen_action # NoneS
                      THEN <<row.zen_slug, row.zen_action \o <<" ">> \o row.zen_slug, "network">>
                      ELSE <<r2, s2, k2>>
    IN  <<a[1], IF Falsy(a[2]) THEN row.event_type ELSE a[2], a[3]>>

\* "Global Rule ID Fallback": a hash of the signature, else of vendor:kind
RuleIdFallback(rule_id, signature, vendor, kind) ==
    IF ~ Falsy(rule_id) THEN rule_id
    ELSE IF ~ Falsy(signature) THEN Md5Hex8(signature)
    ELSE Md5Hex8(NameText[vendor] \o <<":">> \o NameText[kind])

\* the signature fallback with the method and path of web events only
SignatureFallbackWebOnly(row, signature, vendor, kind) ==
    IF ~ Falsy(signature) THEN signature
    ELSE IF vendor = "juiceshop" /\ ~ Falsy(row.http_method)
    THEN row.http_method \o <<" ">> \o OrElse(row.http_path, <<"/">>)
    ELSE signature

\* "Final Signature Fallback": method and path (web), else vendor:kind
SignatureFallback(row, signature, vendor, kind) ==
    IF ~ Falsy(signature) THEN signature
    ELSE IF vendor = "juiceshop" /\ ~ Falsy(row.http_method)
    THEN row.http_method \o <<" ">> \o OrElse(row.http_path, <<"/">>)
    ELSE NameText[vendor] \o <<":">> \o NameText[kind]

\* normalize_event(row)["rule_id"], ["signature"] and ["event_kind"]
normalize_event_keys(row) ==
    LET cv     == classify_vendor(row.sourcetype, row.source)
        vendor == cv[1]
        kind   == cv[2]
        p == IF vendor \in {"wazuh", "sysmon", "windows"}
             THEN <<WinRuleId(row), WinSignature(row), WinKind(row, kind)>>
             ELSE IF vendor = "juiceshop"
             THEN <<NoneS, JuiceSignature(row), JuiceKind(row, kind)>>
             ELSE IF vendor = "opnsense" THEN OpnKeys(row, kind)
             ELSE <<NoneS, NoneS, kind>>
        hec == ~ Falsy(row.host) /\ Contains(<<"8", "0", "8", "8">>, Strip(row.host))
        \* "Infra Override"
        sig1 == IF hec THEN <<"p", "i", "p", "e", "l", "i", "n", "e", "_", "n", "o", "i", "s", "e">> ELSE p[2]
    IN  [rule_id |-> RuleIdFallback(p[1], sig1, vendor, kind),
         signature |-> SignatureFallback(row, sig1, vendor, kind),
         event_kind |-> IF hec THEN "metric" ELSE p[3]]

\* the fields of a raw event that no path reads take these values
SevDefaults ==
    [sourcetype |-> <<>>, source |-> <<>>, host |-> <<"w", "e", "b", "0", "1">>,
     win_type |-> NoneS, rule_dict |-> FALSE, level |-> VNone, rule_id |-> NoneS,
     msg_code |-> NoneS, event_code |-> NoneS, username |-> NoneS,
     status_code |-> None, message |-> <<>>,
     alert_json |-> FALSE, suricata |-> FALSE, priority |-> None, zenarmor |-> "none",
     rule_desc |-> NoneS, rule_auth_failed |-> FALSE, win_source |-> NoneS,
     http_method |-> NoneS, http_path |-> NoneS, alert_sig |-> NoneS, alert_sid |-> NoneS,
     sid |-> NoneS, syslog_sig |-> NoneS, z_proto |-> NoneS, z_direction |-> NoneS,
     zen_action |-> NoneS, zen_slug |-> NoneS, event_type |-> NoneS]

Hosts == {<<"w", "e", "b", "0", "1">>, <<"s", "p", "l", "u", "n", "k", "-", "h", "e", "c", ":", "8", "0", "8", "8">>}

\* rule["level"] as Wazuh and other senders write it
Levels == {VNone} \cup {VInt(n) : n \in 0..15} \cup {
           VStr(<<"1", "2">>), VStr(<<"h", "i", "g", "h">>), VStr(<<"a", "b", "c">>), VStr(<<"1", "2", ".", "5">>)}

\* raw events of the Windows / Wazuh path (Type may be a list, joined here)
WinInputs ==
    {[SevDefaults EXCEPT !.sourcetype = st, !.source = src, !.host = h, !.win_type = wt,
                         !.rule_dict = rl[1], !.level = rl[2], !.rule_id = rl[3],
                         !.msg_code = mc, !.event_code = ec, !.username = u]
        : st \in {<<"w", "a", "z", "u", "h", "-", "a", "l", "e", "r", "t", "s">>, <<"W", "i", "n", "E", "v", "e", "n", "t", "L", "o", "g">>},
          src \in {<<"X", "m", "l", "W", "i", "n", "E", "v", "e", "n", "t", "L", "o", "g", ":", "S", "y", "s", "m", "o", "n">>, <<"W", "i", "n", "E", "v", "e", "n", "t", "L", "o", "g", ":", "S", "e", "c", "u", "r", "i", "t", "y">>},
          h \in Hosts,
          wt \in {NoneS, <<"E", "r", "r", "o", "r">>, <<"W", "a", "r", "n", "i", "n", "g">>, <<"I", "n", "f", "o", "r", "m", "a", "t", "i", "o", "n">>, <<"C", "r", "i", "t", "i", "c", "a", "l">>, <<"V", "e", "r", "b", "o", "s", "e">>,
                  <<"I", "n", "f", "o", "r", "m", "a", "t", "i", "o", "n", " ", "N", "o", "t", " ", "p", "e", "r", "s", "i", "s", "t", "e", "n", "t">>},
          rl \in {<<FALSE, VNone, NoneS>>}
                    \cup {<<TRUE, l, i>> : l \in Levels, i \in {NoneS, <<"4", "6", "2", "5">>}},
          mc \in {NoneS, <<"4", "6", "2", "5">>},
          ec \in {NoneS, <<"4", "6", "2", "5">>, <<"4", "6", "2", "4">>},
          u \in {NoneS, <<"a", "l", "i", "c", "e">>, <<"f", "a", "i", "l", "_", "l", "a", "b", "_", "b", "u", "r", "s", "t", "_", "0", "1">>}}

\* raw events of the juiceshop path: an access log line (status_code set) or
\* an application log line
JuiceInputs ==
    {[SevDefaults EXCEPT !.sourcetype = <<"j", "u", "i", "c", "e", "s", "h", "o", "p", ":", "a", "p", "p">>, !.source = <<"h", "t", "t", "p", ":", "8", "0", "8", "8">>, !.host = h,
                         !.status_code = sc, !.message = m]
        : h \in Hosts, sc \in {None, 200, 500},
          m \in {<<>>, <<"e", "r", "r", "o", "r", ":", " ", "d", "b", " ", "d", "o", "w", "n">>, <<"W", "a", "r", "n", ":", " ", "s", "l", "o", "w", " ", "q", "u", "e", "r", "y">>, <<"i", "n", "f", "o", ":", " ", "r", "e", "a", "d", "y">>}}

\* raw events of the opnsense path: Suricata JSON or syslog, Zenarmor flows
OpnInputs ==
    {[SevDefaults EXCEPT !.sourcetype = st, !.source = <<"u", "d", "p", ":", "5", "5", "1", "4">>, !.host = h,
                         !.alert_json = aj, !.suricata = su, !.priority = pr, !.zenarmor = z]
        : st \in {<<"s", "u", "r", "i", "c", "a", "t", "a">>, <<"z", "e", "n", "a", "r", "m", "o", "r">>, <<"o", "p", "n", "s", "e", "n", "s", "e">>}, h \in Hosts,
          aj \in BOOLEAN, su \in BOOLEAN, pr \in {None, 1, 2, 3, 4},
          z \in {"none", "blocked", "allowed", "badjson"}}

SevInputs ==
    WinInputs \cup JuiceInputs \cup OpnInputs
       \cup {[SevDefaults EXCEPT !.sourcetype = <<"s", "y", "s", "l", "o", "g">>, !.host = h] : h \in Hosts}

\* raw events of the Windows / Wazuh path, for the rule id and the signature
WinKeyInputs ==
    {[SevDefaults EXCEPT !.sourcetype = st, !.host = h,
                         !.rule_dict = rl[1], !.rule_desc = rl[2], !.rule_id = rl[3],
                         !.rule_auth_failed = rl[4],
                         !.msg_code = mc, !.event_code = ec, !.win_source = ws]
        : st \in {<<"w", "a", "z", "u", "h", "-", "a", "l", "e", "r", "t", "s">>, <<"W", "i", "n", "E", "v", "e", "n", "t", "L", "o", "g">>},
          h \in Hosts,
          rl \in {<<FALSE, NoneS, NoneS, FALSE>>}
                    \cup {<<TRUE, de, i, g>> : de \in {NoneS, <<>>, <<"s", "s", "h", "d", ":", " ", "b", "r", "u", "t", "e", " ", "f", "o", "r", "c", "e">>},
                                               i \in {NoneS, <<"5", "7", "1", "0">>}, g \in BOOLEAN},
          mc \in {NoneS, <<"3">>},
          ec \in {NoneS, <<>>, <<"5", "1", "5", "6">>},
          ws \in {NoneS, <<"M", "i", "c", "r", "o", "s", "o", "f", "t", " ", "W", "i", "n", "d", "o", "w", "s", " ", "s", "e", "c", "u", "r", "i", "t", "y", " ", "a", "u", "d", "i", "t", "i", "n", "g", ".">>}}

\* raw events of the juiceshop path: what RE_NGINX finds in the line (status,
\* method, path) and the message
JuiceKeyInputs ==
    {[SevDefaults EXCEPT !.sourcetype = <<"n", "g", "i", "n", "x", ":", "a", "c", "c", "e", "s", "s">>, !.host = h,
                         !.status_code = ng[1], !.http_method = ng[2], !.http_path = ng[3],
                         !.message = m]
        : h \in Hosts,
          ng \in {<<None, NoneS, NoneS>>, <<200, <<"G", "E", "T">>, <<"/", "r", "e", "s", "t", "/", "p", "r", "o", "d", "u", "c", "t", "s">>>>,
                  <<404, <<>>, <<"/">>>>, <<0, <<"P", "O", "S", "T">>, <<>>>>},
          m \in {<<>>, <<" ", " ", " ">>, <<"i", "n", "f", "o", ":", " ", "R", "e", "q", "u", "i", "r", "e", "d", " ", "f", "i", "l", "e", " ", "v", "e", "n", "d", "o", "r", ".", "j", "s", " ", "i", "s", " ", "p", "r", "e", "s", "e", "n", "t">>,
                 <<"e", "r", "r", "o", "r", ":", " ", "U", "n", "h", "a", "n", "d", "l", "e", "d", " ", "r", "e", "j", "e", "c", "t", "i", "o", "n", " ", "w", "h", "i", "l", "e", " ", "l", "o", "a", "d", "i", "n", "g", " ", "t", "h", "e", " ", "p", "r", "o", "d", "u", "c", "t", " ", "c", "a", "t", "a", "l", "o", "g", "u", "e", " ", "f", "r", "o", "m", " ", "t", "h", "e", " ", "d", "a", "t", "a", "b", "a", "s", "e">>}}

\* raw events of the opnsense path: Suricata JSON (alert), Suricata syslog
\* (what the regular expressions find), Zenarmor flows and action lines
OpnKeyInputs ==
    {[SevDefaults EXCEPT !.sourcetype = <<"o", "p", "n", "s", "e", "n", "s", "e">>, !.source = <<"u", "d", "p", ":", "5", "5", "1", "4">>, !.host = h,
                         !.alert_json = aj[1], !.alert_sig = aj[2], !.alert_sid = aj[3],
                         !.suricata = su[1], !.sid = su[2], !.syslog_sig = su[3],
                         !.priority = su[4],
                         !.zenarmor = z[1], !.z_proto = z[2],
                         !.zen_action = za[1], !.zen_slug = za[2], !.event_type = et]
        : h \in Hosts,
          aj \in {<<FALSE, NoneS, NoneS>>, <<TRUE, NoneS, NoneS>>,
                  <<TRUE, <<"E", "T", " ", "S", "C", "A", "N", " ", "N", "m", "a", "p">>, <<"2", "0", "0", "1", "2", "1", "9">>>>},
          su \in {<<FALSE, NoneS, NoneS, None>>, <<TRUE, NoneS, NoneS, None>>,
                  <<TRUE, <<"1", ":", "2", "0", "0", "1", "2", "1", "9", ":", "2", "0">>, <<>>, 3>>,
                  <<TRUE, <<"1", ":", "2", "0", "0", "1", "2", "1", "9", ":", "2", "0">>, <<"E", "T", " ", "S", "C", "A", "N", " ", "N", "m", "a", "p">>, 1>>},
          z \in {<<"none", NoneS>>, <<"badjson", NoneS>>, <<"allowed", NoneS>>,
                 <<"blocked", <<"d", "n", "s">>>>},
          za \in {<<NoneS, NoneS>>, <<<<"a", "l", "l", "o", "w", "e", "d">>, <<"z", "e", "n", "a", "r", "m", "o", "r", ".", "c", "h", "e", "c", "k">>>>},
          et \in {NoneS, <<"f", "l", "o", "w">>}}

KeyInputs ==
    WinKeyInputs \cup JuiceKeyInputs \cup OpnKeyInputs
       \cup {[SevDefaults EXCEPT !.sourcetype = st, !.host = h]
                : st \in {<<"s", "y", "s", "l", "o", "g">>, NoneS}, h \in Hosts \cup {NoneS}}

\* normalize_event is about to be called with a raw event
InitSeverity ==
    /\ PipelineIdle
    /\ sched = SchedIdle
    /\ call \in {[fn |-> "normalize_event", row |-> x, done |-> FALSE,
                  ret |-> [vendor |-> "", severity |-> None, rule_id |-> NoneS,
                           signature |-> NoneS, event_kind |-> ""]]
                    : x \in SevInputs \cup KeyInputs}

\* the call returns
NormalizeReturn ==
    /\ call.fn = "normalize_event"
    /\ ~ call.done
    /\ call' = [call EXCEPT !.done = TRUE, !.ret = normalize_event_severity(call.row)
                                             @@ normalize_event_keys(call.row)]
    /\ last_op' = "normalize_event"
    /\ UNCHANGED nocall

NextSeverity == NormalizeReturn

SpecSeverity == InitSeverity /\ [][NextSeverity]_vars

\* ------------------------------------------------------------------------
\* Stages 1 to 3a in the order run.py runs them: normalize.py stores events,
\* features.py aggregates them, build_signals.py reads the buckets
\* ------------------------------------------------------------------------

\* bound: number of normalized events in the store
MaxPipeEvents == 6

\* the text of a column, as the tables of stages 2 and 3 hold it
PipeText(s) ==
    CASE s = NoneS -> Null
      [] s = <<"4", "6", "2", "5">> -> "4625"
      [] s = <<"5", "7", "1", "0">> -> "5710"
      [] s = <<"w", "e", "b", "0", "1">> -> "web01"
      [] s = <<"s", "p", "l", "u", "n", "k", "-", "h", "e", "c", ":", "8", "0", "8", "8">> -> "splunk-hec:8088"
      [] s = <<"p", "i", "p", "e", "l", "i", "n", "e", "_", "n", "o", "i", "s", "e">> -> "pipeline_noise"
      [] s = <<"W", "a", "z", "u", "h", ":", " ", "C", "r", "i", "t", "i", "c", "a", "l", " ", "s", "s", "h", "d">> -> "Wazuh: Critical sshd"

\* raw events: a failed Windows logon (EventCode 4625) forwarded through the
\* HTTP event collector, whose host field names the collector's port, and a
\* Wazuh alert of level 12 from host web01
PipeRaws ==
    { [SevDefaults EXCEPT !.sourcetype = <<"W", "i", "n", "E", "v", "e", "n", "t", "L", "o", "g">>, !.source = <<"W", "i", "n", "E", "v", "e", "n", "t", "L", "o", "g", ":", "S", "e", "c", "u", "r", "i", "t", "y">>,
                          !.host = <<"s", "p", "l", "u", "n", "k", "-", "h", "e", "c", ":", "8", "0", "8", "8">>, !.event_code = <<"4", "6", "2", "5">>],
      [SevDefaults EXCEPT !.sourcetype = <<"w", "a", "z", "u", "h", "-", "a", "l", "e", "r", "t", "s">>, !.rule_dict = TRUE,
                          !.level = VInt(12), !.rule_id = <<"5", "7", "1", "0">>,
                          !.rule_desc = <<"W", "a", "z", "u", "h", ":", " ", "C", "r", "i", "t", "i", "c", "a", "l", " ", "s", "s", "h", "d">>] }

\* event times: web01 reports in the first minute and then no more, the
\* collector reports two hours later
PipeTimes(raw) == IF raw.host = <<"w", "e", "b", "0", "1">> THEN {20} ELSE {7300}

\* clock readings at which the stages run
PipeNows == {3000, 7320}

\* the columns of the normalized_events row run_batch inserts for a raw
\* event that carries no address, no user and no HTTP request
NormalizedRow(raw) ==
    LET sev  == normalize_event_severity(raw)
        keys == normalize_event_keys(raw)
    IN  [vendor |-> sev.vendor, event_kind |-> keys.event_kind,
         host |-> PipeText(Strip(raw.host)), src_ip |-> Null,
         username |-> PipeText(raw.username), rule_id |-> PipeText(keys.rule_id),
         signature |-> PipeText(keys.signature), severity |-> sev.severity,
         http_path |-> Null, http_status |-> raw.status_code]

InitPipe ==
    /\ raw_events = <<>>
    /\ normalized_events = <<>>
    /\ nrun = [r \in Runners |-> NIdle]
    /\ caught_up = FALSE
    /\ norm_hist = [aborted |-> FALSE, rerun |-> FALSE]
    /\ FeatTablesEmpty
    /\ now = SetMin(PipeNows)
    /\ CorrTablesEmpty
    /\ last_op = "init"

\* run_batch normalizes a raw event that happened at t and commits its row
PipeAddEvent(raw, t) ==
    /\ Len(normalized_events) < MaxPipeEvents
    /\ t <= now
    /\ normalized_events' = Append(normalized_events,
          [k \in DOMAIN NormalizedRow(raw) \cup {"raw_id", "event_time"} |->
              IF k = "raw_id" THEN Len(normalized_events) + 1
              ELSE IF k = "event_time" THEN t ELSE NormalizedRow(raw)[k]])
    /\ feat_fresh' = FALSE
    /\ last_op' = "normalize"
    /\ UNCHANGED <<features, entity_stats, now, feat_runs>>

NextPipe ==
    \/ \E raw \in PipeRaws : \E t \in PipeTimes(raw) :
          PipeAddEvent(raw, t) /\ UNCHANGED <<raw_events, nrun, caught_up, norm_hist, signal_events, checkpoints, det, cvars, call, sched, conc>>
    \/ \E t \in PipeNows : FeatTick(t) /\ UNCHANGED <<raw_events, nrun, caught_up, norm_hist, signal_events, checkpoints, det, cvars, call, sched, conc>>
    \/ Rollup /\ UNCHANGED <<raw_events, nrun, caught_up, norm_hist, signal_events, checkpoints, det, cvars, call, sched, conc>>
    \/ BuildSignals /\ UNCHANGED <<normalized_events, now, upstream, checkpoints, det, cvars>>

SpecPipe == InitPipe /\ [][NextPipe]_vars

\* ------------------------------------------------------------------------
\* Stages 2, 3a and 4 run again and again in the order of run.py with no
\* error: features.py, build_signals.py, correlate.py
\* ------------------------------------------------------------------------

\* the clock of the runs: half a minute past the first hour
EndToEndNow == 3630

\* event times within the hour before EndToEndNow: in the first minute of
\* that hour and in the last
EndToEndTimes == {40, 3610}

\* failed logons (rule_id 4625) on host web01
EndToEndShapes == {s \in FeatShapes : s.rule_id = "4625"}

InitEndToEnd ==
    /\ raw_events = <<>>
    /\ normalized_events = <<>>
    /\ nrun = [r \in Runners |-> NIdle]
    /\ caught_up = FALSE
    /\ norm_hist = [aborted |-> FALSE, rerun |-> FALSE]
    /\ FeatTablesEmpty
    /\ now = EndToEndNow
    /\ CorrTablesEmpty
    /\ last_op = "init"

\* the Normalizer commits the row of an event of the last hour, before a
\* run of features.py
EndToEndAddEvent(shape, t) ==
    /\ Len(normalized_events) < MaxPipeEvents
    /\ feat_runs < MaxRollups
    /\ t <= now
    /\ normalized_events' = Append(normalized_events,
          [k \in DOMAIN shape \cup {"raw_id", "event_time"} |->
              IF k = "raw_id" THEN Len(normalized_events) + 1
              ELSE IF k = "event_time" THEN t ELSE shape[k]])
    /\ feat_fresh' = FALSE
    /\ last_op' = "normalize"
    /\ UNCHANGED <<features, entity_stats, now, feat_runs>>

\* what the stages of this section leave alone
noendtoend == <<raw_events, nrun, caught_up, norm_hist, checkpoints, det, call, sched, conc>>

EndToEndRollup == Rollup /\ UNCHANGED <<signal_events, cvars>> /\ UNCHANGED noendtoend

EndToEndBuildSignals ==
    BuildSignals /\ UNCHANGED <<normalized_events, now, fvars, cvars>> /\ UNCHANGED noendtoend

EndToEndNoSignals ==
    CorrNoSignals /\ UNCHANGED <<normalized_events, now, fvars>> /\ UNCHANGED noendtoend

EndToEndFetch ==
    CorrFetch /\ UNCHANGED <<normalized_events, now, fvars>> /\ UNCHANGED noendtoend

EndToEndStep ==
    CorrStep /\ UNCHANGED <<normalized_events, now, fvars>> /\ UNCHANGED noendtoend

EndToEndCommit ==
    CorrCommit /\ UNCHANGED <<normalized_events, now, fvars>> /\ UNCHANGED noendtoend

NextEndToEnd ==
    \/ \E shape \in EndToEndShapes, t \in EndToEndTimes :
          EndToEndAddEvent(shape, t) /\ UNCHANGED <<signal_events, cvars>> /\ UNCHANGED noendtoend
    \/ EndToEndRollup
    \/ EndToEndBuildSignals
    \/ EndToEndNoSignals
    \/ EndToEndFetch
    \/ EndToEndStep
    \/ EndToEndCommit

\* every stage is run again by the scheduler, and a run that started ends.
\* The first condition is weak fairness of EndToEndRollup with its
\* enabling condition, the guard of Rollup, written out.
SpecEndToEnd ==
    /\ InitEndToEnd
    /\ [][NextEndToEnd]_vars
    /\ (<>[](feat_runs < MaxRollups) => []<><<EndToEndRollup>>_vars)
    /\ WF_vars(EndToEndBuildSignals)
    /\ WF_vars(EndToEndFetch)
    /\ WF_vars(EndToEndStep)
    /\ WF_vars(EndToEndCommit)

\* ------------------------------------------------------------------------
\* The scheduler loop (run.py)
\* ------------------------------------------------------------------------

\* iterations of the while True loop that are followed
MaxIterations == 2

\* what subprocess.call returns: the exit code of the child (0: success)
ExitCodes == {0, 1}

\* the commands of the loop body, in the order of its statements
Stages ==
    <<"splunk_connector", "normalize", "features", "build_signals", "detections",
      "correlate">>

\* position of the print and sleep that end the loop body
SleepPc == Len(Stages) + 1

\* the variables the scheduler itself does not write (the stages run in
\* child processes)
nosched == <<raw_events, normalized_events, nrun, caught_up, norm_hist, fvars, now,
             signal_events, checkpoints, det, cvars, call, conc>>

\* the loop is entered, with or without Splunk ingestion
InitSched ==
    /\ PipelineIdle
    /\ call = NoCall
    /\ sched \in {[SchedIdle EXCEPT !.pc = 1, !.SPLUNK_INGEST = b] : b \in BOOLEAN}

\* if SPLUNK_INGEST: ... else: pass
SchedSkipIngest ==
    /\ sched.pc = 1
    /\ sched.proc = "none"
    /\ ~ sched.SPLUNK_INGEST
    /\ sched' = [sched EXCEPT !.pc = 2]
    /\ last_op' = "sched_skip"
    /\ UNCHANGED nosched

\* subprocess.call(cmd): the child process is started
SchedStart ==
    /\ sched.pc \in 1..Len(Stages)
    /\ sched.proc = "none"
    /\ sched.pc = 1 => sched.SPLUNK_INGEST
    /\ sched' = [sched EXCEPT !.proc = Stages[sched.pc],
                              !.started = Append(@, Stages[sched.pc])]
    /\ last_op' = "sched_start"
    /\ UNCHANGED nosched

\* the same under subprocess.check_call: an error ends the iteration
SchedExitChecked(code) ==
    /\ sched.proc # "none"
    /\ sched' = [sched EXCEPT !.proc = "none",
                              !.codes = Append(@, code),
                              !.rc = IF sched.pc = 1 THEN code ELSE @,
                              !.pc = IF code = 0 THEN @ + 1 ELSE SleepPc]
    /\ last_op' = "sched_exit"
    /\ UNCHANGED nosched

\* subprocess.call(cmd) returns: the child exited with this code; the code
\* is kept only for the connector (rc) and is never tested
SchedExit(code) ==
    /\ sched.proc # "none"
    /\ sched' = [sched EXCEPT !.proc = "none",
                              !.codes = Append(@, code),
                              !.rc = IF sched.pc = 1 THEN code ELSE @,
                              !.pc = @ + 1]
    /\ last_op' = "sched_exit"
    /\ UNCHANGED nosched

\* print, time.sleep(POLL), and the next iteration begins with rc = 0
SchedSleep ==
    /\ sched.pc = SleepPc
    /\ sched.iteration < MaxIterations
    /\ sched' = [sched EXCEPT !.pc = 1, !.rc = 0, !.started = <<>>, !.codes = <<>>,
                              !.iteration = @ + 1,
                              !.erred = @ \/ \E i \in DOMAIN sched.codes : sched.codes[i] # 0]
    /\ last_op' = "sched_sleep"
    /\ UNCHANGED nosched

NextSched ==
    \/ SchedSkipIngest
    \/ SchedStart
    \/ \E code \in ExitCodes : SchedExit(code)
    \/ SchedSleep

SpecSched == InitSched /\ [][NextSched]_vars

\* C1: after any sequence of run_batch runs, aborted and retried runs
\* included, no two rows of normalized_events have the same raw_id (a raw
\* event has zero rows or exactly one), and every row refers to a raw event.
C1_RawIdUnique ==
    /\ \A i, j \in DOMAIN normalized_events :
          normalized_events[i].raw_id = normalized_events[j].raw_id => i = j
    /\ \A i \in DOMAIN normalized_events :
          normalized_events[i].raw_id \in 1..Len(raw_events)

\* a run was aborted, later runs stored two rows, one raw event has no row
C1_Witness ==
    /\ norm_hist.aborted
    /\ Len(normalized_events) >= 2
    /\ \E i \in DOMAIN raw_events : raw_events[i].id \notin NormalizedRawIds(normalized_events)

\* C2: once main() has run to completion ("caught up") and while no raw
\* event has been ingested since, no step of any Normalizer run adds a row to
\* normalized_events or changes one.
C2_RerunChangesNothing ==
    [][caught_up => normalized_events' = normalized_events]_vars

\* a whole further run was made after "caught up", with rows stored and a
\* raw event still without a row
C2_Witness ==
    /\ caught_up
    /\ norm_hist.rerun
    /\ Len(normalized_events) >= 1
    /\ Len(normalized_events) < Len(raw_events)


\* C3: a rollup_features run made right after a committed run, at the same
\* clock reading (same lookback window) and over the same normalized events,
\* leaves the value and n_events of every FeatureBucket as they were and
\* adds or removes no bucket.
C3_RollupConvergent ==
    [][(feat_fresh /\ last_op' = "rollup") => BucketValues(features') = BucketValues(features)]_vars

\* a second run was made over unchanged input, and a bucket counts two events
C3_Witness ==
    /\ feat_fresh
    /\ last_op = "rollup"
    /\ \E r \in features : r.value >= 2
    /\ \E r \in features : r.created_at < now


\* current-window sum S_c of auth_fail_count of host h: buckets after feature_now - 1h
C4_Sc(h) ==
    SetSum({r \in features : /\ r.feature_name = "auth_fail_count" /\ r.entity_type = "host"
                             /\ r.entity_id = h /\ r.bin_start > FeatureNow(features) - 3600},
           RowValue)

\* the baseline buckets of host h: in (feature_now - 7h, feature_now - 1h]
C4_Base(h) ==
    {r \in features : /\ r.feature_name = "auth_fail_count" /\ r.entity_type = "host"
                      /\ r.entity_id = h
                      /\ r.bin_start > FeatureNow(features) - 25200
                      /\ r.bin_start <= FeatureNow(features) - 3600}

\* S_c >= 5 and S_c > 3*B + 5, B the average of the baseline buckets (0 if none)
C4_Fires(h) ==
    LET n == Cardinality(C4_Base(h))
        b == SetSum(C4_Base(h), RowValue)
    IN  /\ C4_Sc(h) >= 5
        /\ (n = 0 => C4_Sc(h) > 5)
        /\ (n > 0 => n * C4_Sc(h) > 3 * b + 5 * n)

\* C4: a complete build_signals run emits an auth_fail_spike signal for host
\* h (window_end = feature_now) iff S_c >= 5 and S_c > 3*B + 5: when the
\* test holds the signal is stored after the run, with severity 7, and when
\* it fails the run adds no such signal.
C4_SpikeIffThreshold ==
    [][last_op' = "build_signals" =>
        \A h \in SigHosts :
          LET before == SignalsOf(signal_events, "auth_fail_spike", "host", h, FeatureNow(features))
              after  == SignalsOf(signal_events', "auth_fail_spike", "host", h, FeatureNow(features))
          IN  /\ C4_Fires(h) => /\ after # {}
                                /\ \A i \in after : signal_events'[i].severity = 7
              /\ ~C4_Fires(h) => after = before]_vars

\* after a run: a host with S_c = 6 and no baseline has its signal, a host
\* with S_c = 4 and no baseline has none
C4_Witness ==
    /\ last_op = "build_signals"
    /\ \E h \in SigHosts :
          /\ C4_Sc(h) = 6 /\ C4_Base(h) = {}
          /\ SignalsOf(signal_events, "auth_fail_spike", "host", h, FeatureNow(features)) # {}
    /\ \E h \in SigHosts :
          /\ C4_Sc(h) = 4 /\ C4_Base(h) = {}
          /\ SignalsOf(signal_events, "auth_fail_spike", "host", h, FeatureNow(features)) = {}


\* C5: at most one signal row is stored for each tuple
\* (signal_name, entity_type, entity_id, window_end), whichever detector
\* runs (build_signals, run_detections) made the rows.
C5_OneRowPerTuple ==
    \A i, j \in DOMAIN signal_events :
        ( /\ signal_events[i].signal_name = signal_events[j].signal_name
          /\ signal_events[i].entity_type = signal_events[j].entity_type
          /\ signal_events[i].entity_id = signal_events[j].entity_id
          /\ signal_events[i].window_end = signal_events[j].window_end ) => i = j

\* C8: the update_checkpoint call that ends a run_detections over [t0, t1)
\* leaves last_window_end of 'detections_main' equal to t1, and no step
\* (a run, or an update_checkpoint call with an earlier window_end) lowers
\* last_window_end or removes the row.
C8_CheckpointMonotone ==
    [][/\ (last_op' = "det_checkpoint" =>
              checkpoints'["detections_main"] = det.end_time)
       /\ (checkpoints["detections_main"] # None =>
              /\ checkpoints'["detections_main"] # None
              /\ checkpoints'["detections_main"] >= checkpoints["detections_main"])]_vars

\* an update_checkpoint call with a window_end earlier than the stored one
\* was made after a run had set the checkpoint to its end time
C8_Witness ==
    /\ last_op = "checkpoint_call"
    /\ det.end_time = 25200
    /\ checkpoints["detections_main"] = 25260
    /\ \E i \in DOMAIN signal_events : signal_events[i].dedupe_key[1] = "sha1"

\* C6: when the turn of the loop that made signal A (severity 7, window_end
\* T) create incident I1 is followed by the turn that processes signal B of
\* the same entity with window_end T + 10 min and severity 3, then B is
\* linked to I1, no incident is created, I1.last_update_time and I1.score
\* increase and I1.severity stays 7.
C6_A == signal_events[corr.last.signal]

C6_B == signal_events[corr.signals[corr.idx + 1]]

C6_Case ==
    /\ corr.pc = "loop"
    /\ corr.idx < Len(corr.signals)
    /\ corr.last.kind = "create"
    /\ C6_A.severity = 7
    /\ C6_B.severity = 3
    /\ C6_B.entity_type = C6_A.entity_type
    /\ C6_B.entity_id = C6_A.entity_id
    /\ C6_B.window_end = C6_A.window_end + 10 * 60
    /\ last_op' = "corr_step"

C6_Attached ==
    LET I1 == corr.last.incident
    IN  /\ [incident_id |-> I1, signal_id |-> corr.signals[corr.idx + 1]] \in corr'.evidence
        /\ Len(corr'.incidents) = Len(corr.incidents)
        /\ corr'.incidents[I1].last_update_time > corr.incidents[I1].last_update_time
        /\ corr'.incidents[I1].score > corr.incidents[I1].score
        /\ corr'.incidents[I1].severity = 7

C6_AttachWithinWindow == [][C6_Case => C6_Attached]_vars

\* C6 as amended: the same, provided A's window starts no more than 4 hours
\* before B's window_end (I1.start_time is A's window_start).
C6_AttachWithinWindowAndLifetime ==
    [][(C6_Case /\ C6_A.window_start >= C6_B.window_end - LifetimeHours * Hour)
          => C6_Attached]_vars

\* B (severity 3) was attached, right after A created it, to an incident of
\* severity 7 that now has A and B as its evidence
C6_Witness ==
    /\ last_op = "corr_step"
    /\ corr.last.kind = "attach"
    /\ LET B  == signal_events[corr.last.signal]
           I1 == corr.incidents[corr.last.incident]
           ls == LinksOf(corr.evidence, corr.last.incident)
       IN  /\ B.severity = 3
           /\ I1.severity = 7
           /\ I1.last_update_time = B.window_end
           /\ Cardinality(ls) = 2
           /\ \E l \in ls : /\ signal_events[l.signal_id].severity = 7
                            /\ signal_events[l.signal_id].window_end + 10 * 60 = B.window_end

\* C7: a turn of the loop never attaches a signal to an incident whose
\* start_time is more than 4 hours before the signal's window_end; when the
\* incidents of the entity updated within the last 30 minutes are all that
\* old, the signal opens a new incident; and no incident has evidence whose
\* window_end is later than its start_time + 4 hours.
C7_Sig == signal_events[corr.signals[corr.idx + 1]]

C7_Recent ==
    {i \in DOMAIN corr.incidents : MatchesNoLifetime(corr.incidents[i], C7_Sig)}

C7_TooOld ==
    {i \in DOMAIN corr.incidents :
        corr.incidents[i].start_time < C7_Sig.window_end - LifetimeHours * Hour}

C7_NeverAttachedToOld ==
    /\ corr'.last.kind = "attach" => corr'.last.incident \notin C7_TooOld
    /\ (C7_Recent # {} /\ C7_Recent \subseteq C7_TooOld)
          => /\ corr'.last.kind = "create"
             /\ Len(corr'.incidents) = Len(corr.incidents) + 1

C7_MaxLifetime ==
    [][(corr.pc = "loop" /\ last_op' = "corr_step")
          => /\ C7_NeverAttachedToOld
             /\ \A l \in corr'.evidence :
                   signal_events[l.signal_id].window_end
                      <= corr'.incidents[l.incident_id].start_time + LifetimeHours * Hour]_vars

\* C7 as amended: the same, except that the signal that created the
\* incident may have a window of its own that is longer than 4 hours.
C7_MaxLifetimeOfAttached ==
    [][(corr.pc = "loop" /\ last_op' = "corr_step")
          => /\ C7_NeverAttachedToOld
             /\ \A l \in corr'.evidence :
                   \/ signal_events[l.signal_id].window_end
                         <= corr'.incidents[l.incident_id].start_time + LifetimeHours * Hour
                   \/ signal_events[l.signal_id].window_start
                         = corr'.incidents[l.incident_id].start_time]_vars

\* a signal opened a new incident although an older incident of its entity
\* was updated within the last 30 minutes
C7_Witness ==
    /\ last_op = "corr_step"
    /\ corr.last.kind = "create"
    /\ \E i \in DOMAIN corr.incidents :
          /\ i # corr.last.incident
          /\ MatchesNoLifetime(corr.incidents[i], signal_events[corr.last.signal])
          /\ corr.incidents[i].start_time
                < signal_events[corr.last.signal].window_end - LifetimeHours * Hour

\* C9: one turn of the loop raises the score of the incident the signal
\* becomes evidence of by at most 50, attached or creating, and the score
\* of an incident never exceeds 50 times the number of its evidence links.
C9_ScoreCapped ==
    /\ [](\A i \in DOMAIN incidents :
             incidents[i].score <= ScoreCap * Cardinality(LinksOf(incident_evidence, i)))
    /\ [][(corr.pc = "loop" /\ last_op' = "corr_step")
            => LET i == corr'.last.incident
                   before == IF i \in DOMAIN corr.incidents THEN corr.incidents[i].score ELSE 0
               IN  corr'.incidents[i].score - before <= ScoreCap]_vars

\* C10: whatever runs failed and were retried, a signal that is marked
\* processed is linked to exactly one incident, a signal that is not is
\* linked to none, and every incident has the severity and the score that
\* one application of each of its linked signals gives (the creating signal
\* in full, every attached signal capped).
C10_Contribution(s) == Min2(signal_events[s].score, ScoreCap)

C10_EffectivelyOnce ==
    /\ \A s \in DOMAIN signal_events :
          Cardinality({l \in incident_evidence : l.signal_id = s})
             = IF signal_events[s].processed_at = None THEN 0 ELSE 1
    /\ \A i \in DOMAIN incidents :
          LET ls == {l.signal_id : l \in LinksOf(incident_evidence, i)}
          IN  /\ ls # {}
              /\ incidents[i].severity = SetMax({signal_events[s].severity : s \in ls})
              /\ \E c \in ls :
                    /\ signal_events[c].window_start = incidents[i].start_time
                    /\ incidents[i].score
                          = signal_events[c].score + SetSum(ls \ {c}, C10_Contribution)

\* a run was undone after it had attached a signal, and the retry committed
\* an incident with two signals
C10_Witness ==
    /\ last_op = "corr_commit"
    /\ corr.retried
    /\ \E i \in DOMAIN incidents : Cardinality(LinksOf(incident_evidence, i)) >= 2

\* C11: a run fetches only signals whose processed_at is null, in ascending
\* window_end order and no more than the limit; a processed_at that is set
\* is never cleared, and a turn of the loop never consumes a signal whose
\* processed_at is set.
C11_FetchedBatch ==
    corr.pc = "loop" =>
        /\ Len(corr.signals) <= FetchLimit
        /\ \A i \in DOMAIN corr.signals :
              /\ corr.signals[i] \in DOMAIN signal_events
              /\ signal_events[corr.signals[i]].processed_at = None
        /\ \A i, j \in DOMAIN corr.signals :
              i < j => /\ corr.signals[i] # corr.signals[j]
                       /\ signal_events[corr.signals[i]].window_end
                             <= signal_events[corr.signals[j]].window_end

C11_ConsumedOnce ==
    /\ [] C11_FetchedBatch
    /\ [][\A s \in DOMAIN signal_events :
             signal_events[s].processed_at # None
                => /\ signal_events'[s].processed_at = signal_events[s].processed_at
                   /\ last_op' = "corr_step" => corr'.last.signal # s
                   /\ {l \in incident_evidence' : l.signal_id = s}
                         = {l \in incident_evidence : l.signal_id = s}]_vars

\* a run fetched a batch that the limit cut short: an unprocessed signal
\* is left for the next run
C11_Witness ==
    /\ last_op = "corr_fetch"
    /\ Len(corr.signals) = FetchLimit
    /\ Unprocessed(signal_events) \ Range(corr.signals) # {}

\* C12: no step changes a field or the evidence of a CLOSED incident, in
\* the tables or in the open transaction, so a CLOSED incident stays CLOSED
\* and gets no signal; a signal whose entity has incidents, all of them
\* CLOSED, creates a new incident.
C12_Closed(tbl) == {i \in DOMAIN tbl : tbl[i].status = "CLOSED"}

C12_Entity(sig) ==
    {i \in DOMAIN corr.incidents : /\ corr.incidents[i].root_entity_type = sig.entity_type
                                   /\ corr.incidents[i].root_entity_id = sig.entity_id}

C13_Sig == signal_events[corr.signals[corr.idx + 1]]

C13_NoCandidate ==
    ~ \E i \in DOMAIN corr.incidents :
          /\ corr.incidents[i].root_entity_type = C13_Sig.entity_type
          /\ corr.incidents[i].root_entity_id = C13_Sig.entity_id
          /\ corr.incidents[i].status \in {"NEW", "ACTIVE"}
          /\ corr.incidents[i].last_update_time >= C13_Sig.window_end - 30 * 60
          /\ corr.incidents[i].start_time >= C13_Sig.window_end - 4 * 3600

C13_CreatesOneIncident ==
    [][(corr.pc = "loop" /\ last_op' = "corr_step" /\ C13_NoCandidate)
          => LET n   == Len(corr.incidents) + 1
                 new == corr'.incidents[n]
             IN  /\ Len(corr'.incidents) = n
                 /\ \A i \in DOMAIN corr.incidents : corr'.incidents[i] = corr.incidents[i]
                 /\ new.status = "NEW"
                 /\ new.root_entity_type = C13_Sig.entity_type
                 /\ new.root_entity_id = C13_Sig.entity_id
                 /\ new.title = <<C13_Sig.signal_name, " on ", C13_Sig.entity_id>>
                 /\ new.start_time = C13_Sig.window_start
                 /\ new.end_time = C13_Sig.window_end
                 /\ new.last_update_time = C13_Sig.window_end
                 /\ new.severity = C13_Sig.severity
                 /\ corr'.evidence = corr.evidence
                       \cup {[incident_id |-> n, signal_id |-> corr.signals[corr.idx + 1]]}
                 /\ Cardinality(LinksOf(corr'.evidence, n)) = 1]_vars

\* a signal with a one hour window opened the second incident of its entity
C13_Witness ==
    /\ last_op = "corr_step"
    /\ corr.last.kind = "create"
    /\ corr.last.incident >= 2
    /\ LET sig == signal_events[corr.last.signal]
           new == corr.incidents[corr.last.incident]
       IN  /\ sig.window_start < sig.window_end
           /\ new.start_time = sig.window_start
           /\ \E i \in DOMAIN corr.incidents :
                 /\ i # corr.last.incident
                 /\ corr.incidents[i].root_entity_id = sig.entity_id

\* C14: whatever rows a batch holds, when run_batch meets no storage error
\* it completes, and every raw event of the batch that is not noise, whose
\* extraction does not raise and that has a usable time (its own or the
\* _time of its payload) has a normalized row afterwards.
C14_Eligible(row) ==
    /\ ~ row.metric
    /\ row.raw_json # "array"
    /\ row.event_time # None \/ row.raw_json = "dict_time"

C14_BadRecordIsolated ==
    [][\A r \in Runners :
          (nrun[r].pc = "fetched" /\ nrun'[r].pc # "fetched" /\ last_op' # "norm_abort")
             => /\ last_op' # "norm_raise"
                /\ \A i \in DOMAIN nrun[r].rows :
                      C14_Eligible(nrun[r].rows[i])
                         => nrun[r].rows[i].id \in NormalizedRawIds(normalized_events')]_vars

\* C15: when main() stops at "caught up" (its last run_batch returned 0),
\* every raw event that was stored when that batch was fetched, is not
\* noise, whose extraction does not raise and that has a usable time has a
\* normalized row: raw events that never get a row do not keep later ones
\* from being normalized.
C15_CaughtUpIsComplete ==
    [][\A r \in Runners :
          (nrun[r].pc = "fetched" /\ nrun'[r].pc = "idle" /\ last_op' = "norm_caught_up")
             => \A i \in 1..nrun[r].seen :
                   C14_Eligible(raw_events[i])
                      => raw_events[i].id \in NormalizedRawIds(normalized_events')]_vars

\* C19: classify_vendor called for a raw event with sourcetype 'suricata'
\* and source 'udp:5514' returns vendor 'suricata' and event_kind 'alert'.
C19_ClassifySuricata ==
    (/\ call.fn = "classify_vendor"
     /\ call.done
     /\ call.sourcetype = <<"s", "u", "r", "i", "c", "a", "t", "a">>
     /\ call.source = <<"u", "d", "p", ":", "5", "5", "1", "4">>)
        => call.ret = <<"suricata", "alert">>

\* C16: the severity of every normalized event normalize_event returns is
\* one of 0, 1, 4, 7.
C16_SeverityOrdinal ==
    (call.fn = "normalize_event" /\ call.done) => call.ret.severity \in {0, 1, 4, 7}

\* C17: when a run of run_detections inserts the signals it found in its
\* range [start_time, end_time), that range has no instant in common with
\* the range of the run that inserted signals before it, whatever runs
\* crashed in between.
C17_RangesDisjoint ==
    [][(det.pc = "scanned" /\ last_op' = "det_insert" /\ det.signals # {})
          => \A rg \in det.hist : rg[2] <= det.start_time \/ det.end_time <= rg[1]]_vars

\* C18: in every iteration of the loop of run.py the stages are started in
\* the order normalize, features, build_signals, detections, correlate; a
\* stage is started only when no child process is running and every stage
\* started before it has returned its exit code; and whatever the exit code
\* of a stage, the next stage of the iteration is the next to be started
\* (nothing but a running child disables its start), and after the last
\* stage the loop sleeps and begins the next iteration.
C18_Order == <<"normalize", "features", "build_signals", "detections", "correlate">>

C18_Listed == SelectSeq(sched.started, LAMBDA st : st # "splunk_connector")

C18_StageOrdering ==
    /\ [](\E n \in 0..Len(C18_Order) : C18_Listed = SubSeq(C18_Order, 1, n))
    /\ [](Len(sched.codes) = Len(sched.started) - (IF sched.proc = "none" THEN 0 ELSE 1))
    /\ []((sched.pc \in 2..Len(Stages) /\ sched.proc = "none") => ENABLED SchedStart)
    /\ [][(sched.proc = "none" /\ sched'.proc # "none")
            => /\ Len(sched.codes) = Len(sched.started)
               /\ sched'.proc = Stages[sched.pc]]_vars
    /\ [][(sched.proc # "none" /\ sched'.proc = "none")
            => /\ sched'.pc = sched.pc + 1
               /\ sched.proc = Stages[sched.pc]]_vars
    /\ [][(sched.pc = SleepPc /\ sched' # sched)
            => /\ sched'.pc = 1
               /\ sched'.iteration = sched.iteration + 1
               /\ Len(sched.started) >= Len(C18_Order)]_vars

\* in a later iteration than one in which a stage failed, normalize exited
\* with an error and correlate is running after all five stages were started
C18_Witness ==
    /\ sched.erred
    /\ sched.iteration >= 1
    /\ sched.proc = "correlate"
    /\ \E i \in DOMAIN sched.codes : sched.started[i] = "normalize" /\ sched.codes[i] = 1
    /\ C18_Listed = C18_Order

\* C20: a turn of the loop attaches a signal only to an incident whose
\* last_update_time is within 30 minutes of the signal's window_end, before
\* or after it; and a signal whose window_end is more than 30 minutes
\* earlier than the last_update_time of every open incident of its entity
\* opens a new incident.
C20_Sig == signal_events[corr.signals[corr.idx + 1]]

C20_Open ==
    {i \in DOMAIN corr.incidents :
        /\ corr.incidents[i].root_entity_type = C20_Sig.entity_type
        /\ corr.incidents[i].root_entity_id = C20_Sig.entity_id
        /\ corr.incidents[i].status \in {"NEW", "ACTIVE"}}

C20_Within(i) ==
    /\ corr.incidents[i].last_update_time >= C20_Sig.window_end - INCIDENT_WINDOW_MINUTES * 60
    /\ corr.incidents[i].last_update_time <= C20_Sig.window_end + INCIDENT_WINDOW_MINUTES * 60

C20_CorrelationWindow ==
    [][(corr.pc = "loop" /\ last_op' = "corr_step")
          => /\ corr'.last.kind = "attach" => C20_Within(corr'.last.incident)
             /\ (/\ C20_Open # {}
                 /\ \A i \in C20_Open :
                        C20_Sig.window_end
                           < corr.incidents[i].last_update_time - INCIDENT_WINDOW_MINUTES * 60)
                   => /\ corr'.last.kind = "create"
                      /\ Len(corr'.incidents) = Len(corr.incidents) + 1]_vars

\* C21: when two or more NEW/ACTIVE incidents of the signal's entity satisfy
\* the window and lifetime conditions, the turn of the loop attaches the
\* signal to one of them whose last_update_time is the greatest: that
\* incident alone is updated, the only link added is to it, and no incident
\* is created.
C21_Sig == signal_events[corr.signals[corr.idx + 1]]

C21_Candidates ==
    {i \in DOMAIN corr.incidents :
        /\ corr.incidents[i].root_entity_type = C21_Sig.entity_type
        /\ corr.incidents[i].root_entity_id = C21_Sig.entity_id
        /\ corr.incidents[i].status \in {"NEW", "ACTIVE"}
        /\ corr.incidents[i].last_update_time
              >= C21_Sig.window_end - INCIDENT_WINDOW_MINUTES * 60
        /\ corr.incidents[i].start_time >= C21_Sig.window_end - LifetimeHours * Hour}

C21_MostRecentlyUpdated ==
    [][(corr.pc = "loop" /\ last_op' = "corr_step" /\ Cardinality(C21_Candidates) >= 2)
          => /\ corr'.last.kind = "attach"
             /\ corr'.last.incident \in C21_Candidates
             /\ \A j \in C21_Candidates :
                   corr.incidents[corr'.last.incident].last_update_time
                      >= corr.incidents[j].last_update_time
             /\ corr'.evidence =
                   corr.evidence \cup {[incident_id |-> corr'.last.incident,
                                        signal_id |-> corr.signals[corr.idx + 1]]}
             /\ DOMAIN corr'.incidents = DOMAIN corr.incidents
             /\ \A j \in DOMAIN corr.incidents :
                   j # corr'.last.incident => corr'.incidents[j] = corr.incidents[j]]_vars

\* a signal was just attached to an incident while another open incident of
\* the entity, updated earlier, satisfied the conditions as well
C21_Witness ==
    /\ last_op = "corr_step"
    /\ corr.last.kind = "attach"
    /\ \E j \in DOMAIN corr.incidents :
          /\ j # corr.last.incident
          /\ Matches(corr.incidents[j], signal_events[corr.last.signal])
          /\ corr.incidents[j].last_update_time
                < corr.incidents[corr.last.incident].last_update_time
          /\ [incident_id |-> j, signal_id |-> corr.last.signal] \notin corr.evidence

\* C22: in every committed state each incident has evidence and its
\* severity is the greatest severity of the signals linked to it, and no
\* step lowers the severity of a committed incident.
C22_Severities(i) ==
    {signal_events[l.signal_id].severity : l \in LinksOf(incident_evidence, i)}

C22_SeverityIsMax ==
    /\ [](\A i \in DOMAIN incidents :
            /\ incidents[i].severity \in C22_Severities(i)
            /\ \A v \in C22_Severities(i) : v <= incidents[i].severity)
    /\ [][\A i \in DOMAIN incidents :
            /\ i \in DOMAIN incidents'
            /\ incidents'[i].severity >= incidents[i].severity]_vars

\* a committed incident of severity 7 whose evidence is a signal of severity
\* 7 and a signal of severity 3 with a later window_end
C22_Witness ==
    \E i \in DOMAIN incidents :
       /\ incidents[i].severity = 7
       /\ \E l, m \in LinksOf(incident_evidence, i) :
             /\ signal_events[l.signal_id].severity = 7
             /\ signal_events[m.signal_id].severity = 3
             /\ signal_events[m.signal_id].window_end > signal_events[l.signal_id].window_end

\* C23: every event normalize_event returns, on every vendor path, has a
\* rule_id that is neither None nor empty and a signature that is neither
\* None nor empty.
C23_GroupingKeys ==
    (call.fn = "normalize_event" /\ call.done)
        => /\ call.ret.rule_id # NoneS
           /\ call.ret.rule_id # <<>>
           /\ call.ret.signature # NoneS
           /\ call.ret.signature # <<>>

\* an event of an unknown vendor, with no signature and no rule id derived,
\* was returned with the vendor:kind signature and the hash of it as rule_id
C23_Witness ==
    /\ call.fn = "normalize_event"
    /\ call.done
    /\ call.row.sourcetype = <<"s", "y", "s", "l", "o", "g">>
    /\ call.ret.signature = <<"u", "n", "k", "n", "o", "w", "n", ":", "u", "n", "k", "n", "o", "w", "n">>
    /\ call.ret.rule_id = Md5Hex8(<<"u", "n", "k", "n", "o", "w", "n", ":", "u", "n", "k", "n", "o", "w", "n">>)

\* C24: for every event of the Wazuh / Windows family whose rule carries an
\* integer level L in 0..15 and whose rule id is not the overriding event
\* code 4625, the normalized severity is 7 if L >= 12, 4 if 7 <= L < 12 and
\* 1 otherwise, L = 0 included.
C24_Case ==
    /\ call.fn = "normalize_event"
    /\ call.done
    /\ call.ret.vendor \in {"wazuh", "sysmon", "windows"}
    /\ call.row.rule_dict
    /\ call.row.level.k = "int"
    /\ call.row.level.i \in 0..15
    /\ WinRuleId(call.row) # <<"4", "6", "2", "5">>

C24_LevelToSeverity ==
    C24_Case
        => call.ret.severity = (IF call.row.level.i >= 12 THEN 7
                                ELSE IF call.row.level.i >= 7 THEN 4 ELSE 1)

\* C25: a run of build_signals after one that reached its end, and the
\* insert of a run_detections whose scans read what the scans of the last
\* inserting run read (the same buckets and the same normalized events, as
\* after a crash before the checkpoint update), add no row to signal_events
\* and change none; features_timeseries is the same throughout.
C25_RepeatIsFree ==
    /\ [][features' = features]_vars
    /\ [][(last_op' = "build_signals" /\ det.built >= 1)
            => signal_events' = signal_events]_vars
    /\ [][(last_op' = "det_insert" /\ det.pc = "scanned" /\ det.signals # {}
           /\ RepeatsLastScan)
            => signal_events' = signal_events]_vars

\* no checkpoint was ever written, build_signals ran twice, and
\* run_detections has inserted again what its crashed run had inserted; the
\* table holds one row of each detector
C25_Witness ==
    /\ det.pc = "inserted"
    /\ det.again
    /\ det.signals # {}
    /\ det.built = 2
    /\ checkpoints["detections_main"] = None
    /\ \E i, j \in DOMAIN signal_events :
          /\ signal_events[i].dedupe_key[1] = "text"
          /\ signal_events[j].dedupe_key[1] = "sha1"

\* C27: a run of rollup_features made when the previous run committed at the
\* same clock and no normalized event was added since leaves entity_stats
\* unchanged: event_count, first_seen and last_seen of every row.
C27_StatsIdempotent ==
    [][(last_op' = "rollup" /\ feat_fresh) => entity_stats' = entity_stats]_vars

\* C28: after any sequence of runs, for every entity_stats row and every
\* bucket of features_timeseries of its entity,
\* first_seen <= bin_start <= last_seen.
C28_SeenBounds ==
    \A st \in entity_stats :
       \A r \in features :
          (r.entity_type = st.entity_type /\ r.entity_id = st.entity_id)
             => /\ st.first_seen <= r.bin_start
                /\ r.bin_start <= st.last_seen

\* C29: after a run of rollup_features, every bucket that run wrote holds
\* the number of stored normalized events of its rule, entity and minute,
\* whether or not the lookback window covers the whole minute; and a run
\* made while no event was added lowers the value of no bucket.
C29_AllTime == (now \div 60) + 1

C29_TrueRows ==
    UNION {QueryRows(FeatureQueries[k], normalized_events, now, C29_AllTime)
             : k \in DOMAIN FeatureQueries}

C29_BucketAccuracy ==
    /\ [](last_op = "rollup"
            => \A r \in features :
                  r.created_at = now
                     => \E x \in C29_TrueRows :
                           /\ FeatureKey(x) = FeatureKey(r)
                           /\ x.value = r.value)
    /\ [][(last_op' = "rollup" /\ normalized_events # <<>>)
            => \A r \in features :
                  \A x \in features' :
                     FeatureKey(x) = FeatureKey(r) => x.value >= r.value]_vars

\* C26: after a run of features.py followed by a run of build_signals.py
\* with every stored event aggregated, every host that has normalized events
\* in (feature_now - 24h, feature_now - 1h] and none later has a stored
\* agent_silent signal of severity 3 and score 10.
C26_Aggregated ==
    \A i \in DOMAIN normalized_events :
       \E r \in features :
          /\ r.entity_type = "host"
          /\ r.entity_id = CoalesceUnknown(normalized_events[i].host)
          /\ r.bin_start = DateTruncMinute(normalized_events[i].event_time)

C26_SilentHosts ==
    LET fn == FeatureNow(features)
        At(h) == {normalized_events[i].event_time :
                     i \in {j \in DOMAIN normalized_events : normalized_events[j].host = h}}
    IN  {h \in {normalized_events[i].host : i \in DOMAIN normalized_events} :
            /\ \E t \in At(h) : t > fn - 24 * Hour /\ t <= fn - Hour
            /\ \A t \in At(h) : t <= fn - Hour}

C26_SilenceDetected ==
    (last_op = "build_signals" /\ feat_fresh /\ C26_Aggregated)
       => \A h \in C26_SilentHosts :
             \E i \in DOMAIN signal_events :
                /\ signal_events[i].signal_name = "agent_silent"
                /\ signal_events[i].entity_type = "host"
                /\ signal_events[i].entity_id = h
                /\ signal_events[i].severity = 3
                /\ signal_events[i].score = 10

\* C30: every normalized event whose host contains '8088' has vendor infra,
\* event kind metric and severity 0, and while the store holds such events
\* only, no signal and no incident exists.
C30_FromCollector(e) == e.host = "splunk-hec:8088"

C30_SelfTelemetry ==
    /\ \A i \in DOMAIN normalized_events :
          C30_FromCollector(normalized_events[i])
             => /\ normalized_events[i].vendor = "infra"
                /\ normalized_events[i].event_kind = "metric"
                /\ normalized_events[i].severity = 0
    /\ (\A i \in DOMAIN normalized_events : C30_FromCollector(normalized_events[i]))
          => (signal_events = <<>> /\ incidents = <<>>)

\* C31: two runs of correlate.py at once are not safe. A signal is linked to
\* two incidents, or its score is committed to an incident twice, only if two
\* open runs held that signal at once (the witness is such a state).
C31_TwoIncidents(s) ==
    \E x, y \in incident_evidence :
       x.signal_id = s /\ y.signal_id = s /\ x.incident_id # y.incident_id

C31_ConcurrentRunsUnsafe ==
    \A s \in DOMAIN signal_events :
       (C31_TwoIncidents(s) \/ conc.applied[s] >= 2) => s \in conc.shared

C31_Witness ==
    /\ \E s \in DOMAIN signal_events : C31_TwoIncidents(s)
    /\ \A p \in CorrRunners : conc.run[p].pc = "idle"

C31_WitnessScoredTwice ==
    /\ \E s \in DOMAIN signal_events : conc.applied[s] >= 2 /\ ~ C31_TwoIncidents(s)
    /\ \A p \in CorrRunners : conc.run[p].pc = "idle"

\* C32: in every committed state a signal has processed_at set exactly if an
\* evidence row links it to an incident, and no signal is linked to more
\* than one incident.
C32_Linked(s) == {l \in incident_evidence : l.signal_id = s}

C32_ProcessedIffLinked ==
    \A s \in DOMAIN signal_events :
       /\ (signal_events[s].processed_at # None) <=> (C32_Linked(s) # {})
       /\ Cardinality(C32_Linked(s)) <= 1
       /\ \A l \in C32_Linked(s) : l.incident_id \in DOMAIN incidents

C32_Witness ==
    /\ corr.failed
    /\ corr.pc = "idle"
    /\ \E s, t \in DOMAIN signal_events :
          /\ signal_events[s].processed_at # None
          /\ signal_events[t].processed_at = None
    /\ \E i \in DOMAIN incidents : Cardinality({l \in incident_evidence : l.incident_id = i}) >= 2

\* C33: every signal linked to an incident has the incident's root entity,
\* in the store and in the open transaction, and no step changes the root
\* entity, title, status or start_time of an incident.
C33_Scoped(inc_tbl, links) ==
    \A l \in links :
       /\ signal_events[l.signal_id].entity_type = inc_tbl[l.incident_id].root_entity_type
       /\ signal_events[l.signal_id].entity_id = inc_tbl[l.incident_id].root_entity_id

C33_Fixed(old, new) ==
    /\ old.root_entity_type = new.root_entity_type
    /\ old.root_entity_id = new.root_entity_id
    /\ old.title = new.title
    /\ old.status = new.status
    /\ old.start_time = new.start_time

C33_EntityScoped ==
    /\ [](C33_Scoped(incidents, incident_evidence)
          /\ (corr.pc = "loop" => C33_Scoped(corr.incidents, corr.evidence)))
    /\ [][/\ \A i \in DOMAIN incidents : C33_Fixed(incidents[i], incidents'[i])
          /\ (corr.pc = "loop" /\ corr'.pc = "loop")
                => \A i \in DOMAIN corr.incidents :
                      C33_Fixed(corr.incidents[i], corr'.incidents[i])]_vars

C33_Witness ==
    /\ \E i, j \in DOMAIN incidents :
          /\ incidents[i].root_entity_id = "web01"
          /\ incidents[j].root_entity_id = "db01"
          /\ Cardinality({l \in incident_evidence : l.incident_id = i}) >= 2
    /\ corr.last.kind = "attach"

\* C34: every incident, stored or in the open transaction, has
\* start_time <= end_time = last_update_time, and no step lowers the
\* end_time, last_update_time or score of a stored incident.
C34_Ordered(inc) ==
    /\ inc.start_time <= inc.end_time
    /\ inc.end_time = inc.last_update_time

C34_TimesMonotone ==
    /\ []((\A i \in DOMAIN incidents : C34_Ordered(incidents[i]))
          /\ (corr.pc = "loop" =>
                 \A i \in DOMAIN corr.incidents : C34_Ordered(corr.incidents[i])))
    /\ [][\A i \in DOMAIN incidents :
             /\ incidents'[i].end_time >= incidents[i].end_time
             /\ incidents'[i].last_update_time >= incidents[i].last_update_time
             /\ incidents'[i].score >= incidents[i].score]_vars

C34_Witness ==
    \E i \in DOMAIN incidents :
       \E l, m \in incident_evidence :
          /\ l.incident_id = i /\ m.incident_id = i
          /\ l.signal_id < m.signal_id
          /\ signal_events[m.signal_id].window_end < signal_events[l.signal_id].window_end
          /\ incidents[i].end_time = signal_events[l.signal_id].window_end

\* C35: the 'Spike in Bad Events' signals of a scanned range (entities and
\* dedupe keys) are those of its two parts, wherever a run between its start
\* and its end would have cut it.
C35_Keys(S) == {<<x.entity_type, x.entity_id, x.dedupe_key>> : x \in S}

C35_ScheduleIndependent ==
    det.pc = "scanned"
       => \A m \in {TruncMinute(t) : t \in DetNows} :
             (det.start_time < m /\ m < det.end_time)
                => C35_Keys(detect_spikes(features, det.start_time, det.end_time))
                      = C35_Keys(detect_spikes(features, det.start_time, m)
                                    \cup detect_spikes(features, m, det.end_time))

\* C36: under repeated runs of the detector, once the checkpoint has passed
\* the event_time of a normalized event of severity 7 or more with a known
\* host, a signal for that event is stored (later runs start at the
\* checkpoint, so an event without a signal then never gets one).
C36_HasSignal(e) ==
    \E j \in DOMAIN signal_events :
       /\ signal_events[j].entity_id = e.host
       /\ signal_events[j].window_end = e.event_time
       /\ signal_events[j].signal_name = e.signature

C36_NoAlertMissed ==
    (det.pc = "idle" /\ checkpoints["detections_main"] # None)
       => \A i \in DOMAIN normalized_events :
             (/\ normalized_events[i].severity >= 7
              /\ normalized_events[i].host \notin {Null, "unknown"}
              /\ normalized_events[i].event_time < checkpoints["detections_main"])
                => C36_HasSignal(normalized_events[i])

C39_Processed(s) == s \in DOMAIN signal_events /\ signal_events[s].processed_at # None

C38_AuthFails(h) ==
    {i \in DOMAIN normalized_events : /\ normalized_events[i].rule_id = "4625"
                                      /\ normalized_events[i].host = h}

C38_SixInLastHour(h) ==
    /\ Cardinality({i \in C38_AuthFails(h) :
                       /\ normalized_events[i].event_time > now - Hour
                       /\ normalized_events[i].event_time <= now}) >= 6
    /\ \A i \in C38_AuthFails(h) : normalized_events[i].event_time > now - Hour

C38_Spikes(h) ==
    {s \in DOMAIN signal_events : /\ signal_events[s].signal_name = "auth_fail_spike"
                                  /\ signal_events[s].entity_type = "host"
                                  /\ signal_events[s].entity_id = h}

C38_Incident(h) ==
    \E s \in C38_Spikes(h) : \E i \in DOMAIN incidents :
       /\ [incident_id |-> i, signal_id |-> s] \in incident_evidence
       /\ incidents[i].status \in {"NEW", "ACTIVE"}
       /\ incidents[i].root_entity_type = "host"
       /\ incidents[i].root_entity_id = h
       /\ incidents[i].severity >= 7

C38_EndToEnd ==
    /\ C38_SixInLastHour("web01") ~> (C38_Spikes("web01") # {})
    /\ C38_SixInLastHour("web01") ~> C38_Incident("web01")

====
